---- MODULE Spec2Model ----
(***************************************************************************)
(* Release workflows of automtr2k (AT2 CLI): the GitManager based plugins   *)
(* (StandardReleasePlugin, QimacertReleasePlugin), the exec based plugins   *)
(* (QimaLegacyReleasePlugin, QimaReleasePlugin) and the git working         *)
(* directory they drive.  One run of execute() is a sequence of awaited git *)
(* commands; every awaited command is one step of the model.                *)
(***************************************************************************)
EXTENDS Integers, Sequences, FiniteSets, TLC

\* Number of times the operator runs the same request against the same working directory.
MaxRuns == 2

(***************************************************************************)
(* Strings                                                                 *)
(***************************************************************************)

\* String.prototype.includes: sub occurs somewhere in s.
Includes(s, sub) ==
    \E i \in 1..(Len(s) - Len(sub) + 1) : SubSeq(s, i, i + Len(sub) - 1) = sub

(***************************************************************************)
(* The git working directory and origin, as far as the workflows see them. *)
(*   cur        checked-out branch                                         *)
(*   ltags      tags of the local repository       rtags      tags on origin     *)
(*   lbranches  local branches                     rbranches  branches on origin *)
(*   mergeHead  .git/MERGE_HEAD exists (a merge was started and not concluded)   *)
(*   status     XY codes `git status --porcelain` prints for unmerged paths      *)
(***************************************************************************)

\* porcelain codes of paths left unmerged by a conflicting merge
ConflictCodes == {"UU", "AA", "DD"}

\* A git command as the workflows issue it: text is the command line.
Cmd(text, op, arg, from) == [text |-> text, op |-> op, arg |-> arg, from |-> from]

\* One entry of the run's log of issued git commands.
Issued(c, res) == [op |-> c.op, arg |-> c.arg, res |-> res]

\* Whether git carries out command c in working directory g.
GitAccepts(g, c) ==
    CASE c.op = "checkout"     -> c.arg \in (g.lbranches \cup g.rbranches) /\ g.status = {}
      [] c.op = "fetchBranch"  -> c.arg \in g.rbranches /\ g.cur # c.arg
      [] c.op = "pull"         -> c.arg \in g.rbranches /\ g.status = {}
      [] c.op = "tag"          -> c.arg \notin g.ltags
      [] c.op = "pushTag"      -> c.arg \in g.ltags
      [] c.op = "createBranch" -> /\ c.arg \notin g.lbranches
                                  /\ c.from \in (g.lbranches \cup g.ltags \cup {"HEAD"})
                                  /\ g.status = {}
      [] c.op = "pushBranch"   -> c.arg \in g.lbranches
      [] c.op = "mergeAbort"   -> g.mergeHead
      [] c.op = "deleteBranch" -> c.arg \in g.lbranches /\ g.cur # c.arg
      [] c.op = "deleteTag"    -> c.arg \in g.ltags
      [] c.op = "deleteRemote" -> c.arg \in (g.rtags \cup g.rbranches)
      [] OTHER                 -> TRUE

\* The working directory and origin after git carried out command c.
GitEffect(g, c) ==
    CASE c.op = "checkout"     -> [g EXCEPT !.cur = c.arg, !.lbranches = @ \cup {c.arg}]
      [] c.op = "fetchBranch"  -> [g EXCEPT !.lbranches = @ \cup {c.arg}]
      [] c.op = "tag"          -> [g EXCEPT !.ltags = @ \cup {c.arg}]
      [] c.op = "pushTag"      -> [g EXCEPT !.rtags = @ \cup {c.arg}]
      [] c.op = "pushTags"     -> [g EXCEPT !.rtags = @ \cup g.ltags]
      [] c.op = "createBranch" -> [g EXCEPT !.cur = c.arg, !.lbranches = @ \cup {c.arg}]
      [] c.op = "pushBranch"   -> [g EXCEPT !.rbranches = @ \cup {c.arg}]
      [] c.op = "mergeAbort"   -> [g EXCEPT !.mergeHead = FALSE, !.status = {}]
      [] c.op = "deleteBranch" -> [g EXCEPT !.lbranches = @ \ {c.arg}]
      [] c.op = "deleteTag"    -> [g EXCEPT !.ltags = @ \ {c.arg}]
      [] c.op = "deleteRemote" -> [g EXCEPT !.rtags = @ \ {c.arg}, !.rbranches = @ \ {c.arg}]
      [] OTHER                 -> g

\* `git merge`: how the merge ends depends on the contents of the two branches.
MergeOutcomes == {"clean", "conflict", "error"}

\* What git prints when a merge does not end cleanly.
MergeMessage(outcome) ==
    IF outcome = "conflict"
    THEN "CONFLICT (content): Merge conflict in file"
    ELSE "fatal: refusing to merge unrelated histories"

\* The working directory after `git merge` ended with outcome; a conflict leaves
\* MERGE_HEAD and a path with porcelain code `code`.
MergeEffect(g, outcome, code) ==
    IF outcome = "conflict" THEN [g EXCEPT !.mergeHead = TRUE, !.status = {code}] ELSE g

(***************************************************************************)
(* GitManager: one operator per method.  A call yields the working         *)
(* directory it leaves, whether the promise resolved (ok), the message of   *)
(* the Error it rejected with, the value it resolved with (ret) and the     *)
(* git commands it issued.  envf: the command fails for a reason outside    *)
(* the working directory (network, authentication, rejected push).          *)
(***************************************************************************)

Call(g, ok, err, ret, log) == [git |-> g, ok |-> ok, err |-> err, ret |-> ret, log |-> log]

\* simple-git runs one command and resolves, or rejects with a GitError
Run(g, c, envf) ==
    LET ok == ~envf /\ GitAccepts(g, c)
    IN  [git |-> IF ok THEN GitEffect(g, c) ELSE g,
         ok  |-> ok,
         log |-> <<Issued(c, IF ok THEN "ok" ELSE "fail")>>]

GitErrorText == "Error: git command failed"

fetchAndUpdate(g, baseBranches, envf1, envf2) ==
    LET a == Run(g, Cmd("git fetch --prune", "fetch", "", ""), envf1)
        b == Run(a.git,
                 Cmd("git fetch origin " \o baseBranches.develop \o ":" \o baseBranches.develop
                         \o " --recurse-submodules=no --progress --prune",
                     "fetchBranch", baseBranches.develop, ""),
                 envf2)
        msg == "Failed to fetch and update: " \o GitErrorText
    IN  IF ~a.ok THEN Call(a.git, FALSE, msg, FALSE, a.log)
        ELSE IF baseBranches.type = "custom"
             THEN Call(b.git, b.ok, msg, FALSE, a.log \o b.log)
             ELSE Call(a.git, TRUE, msg, FALSE, a.log)

checkoutBranch(g, branchName, envf) ==
    LET r == Run(g, Cmd("git checkout " \o branchName, "checkout", branchName, ""), envf)
    IN  Call(r.git, r.ok, "Failed to checkout branch " \o branchName \o ": " \o GitErrorText,
             FALSE, r.log)

\* Variant of pullBranch that issues the pull a second time when the first fails.
pullBranchRetry(g, branchName, envf) ==
    LET c == Cmd("git pull origin " \o branchName, "pull", branchName, "")
        r == Run(g, c, envf)
        again == Run(r.git, c, envf)
    IN  IF r.ok
        THEN Call(r.git, TRUE, "", FALSE, r.log)
        ELSE Call(again.git, again.ok,
                  "Failed to pull branch " \o branchName \o ": " \o GitErrorText,
                  FALSE, r.log \o again.log)

pullBranch(g, branchName, envf) ==
    LET r == Run(g, Cmd("git pull origin " \o branchName, "pull", branchName, ""), envf)
    IN  Call(r.git, r.ok, "Failed to pull branch " \o branchName \o ": " \o GitErrorText,
             FALSE, r.log)

createBranch(g, newBranchName, fromBranch, envf) ==
    LET r == Run(g, Cmd("git checkout -b " \o newBranchName \o " " \o fromBranch,
                        "createBranch", newBranchName, fromBranch), envf)
    IN  Call(r.git, r.ok, "Failed to create branch " \o newBranchName \o ": " \o GitErrorText,
             FALSE, r.log)

\* Variant of createTag that overwrites an existing tag (`git tag -f`).
createTagForce(g, tagName, envf) ==
    LET c == Cmd("git tag -f " \o tagName, "tag", tagName, "")
        ok == ~envf
    IN  Call(IF ok THEN GitEffect(g, c) ELSE g, ok,
             "Failed to create tag " \o tagName \o ": " \o GitErrorText,
             FALSE, <<Issued(c, IF ok THEN "ok" ELSE "fail")>>)

createTag(g, tagName, envf) ==
    LET r == Run(g, Cmd("git tag " \o tagName, "tag", tagName, ""), envf)
    IN  Call(r.git, r.ok, "Failed to create tag " \o tagName \o ": " \o GitErrorText,
             FALSE, r.log)

\* Variant of pushTag whose catch block logs the failure and returns normally.
pushTagSwallow(g, tagName, envf) ==
    LET r == Run(g, Cmd("git push origin --tags", "pushTags", tagName, ""), envf)
    IN  Call(r.git, TRUE, "", FALSE, r.log)

\* pushTags('origin') is `git push origin --tags`: every local tag goes to origin
pushTag(g, tagName, envf) ==
    LET r == Run(g, Cmd("git push origin --tags", "pushTags", tagName, ""), envf)
    IN  Call(r.git, r.ok, "Failed to push tag " \o tagName \o ": " \o GitErrorText,
             FALSE, r.log)

pushBranch(g, branchName, setUpstream, envf) ==
    LET text == IF setUpstream THEN "git push --set-upstream origin " \o branchName
                               ELSE "git push origin " \o branchName
        r == Run(g, Cmd(text, "pushBranch", branchName, ""), envf)
    IN  Call(r.git, r.ok, "Failed to push branch " \o branchName \o ": " \o GitErrorText,
             FALSE, r.log)

\* resolves true on a clean merge, false when the GitError mentions CONFLICT,
\* and rejects on any other failure
mergeBranch(g, sourceBranch, outcome, code) ==
    LET c == Cmd("git merge " \o sourceBranch, "merge", sourceBranch, "")
        after == MergeEffect(g, outcome, code)
        message == MergeMessage(outcome)
    IN  IF outcome = "clean"
        THEN Call(after, TRUE, "", TRUE, <<Issued(c, "ok")>>)
        ELSE IF Includes(message, "CONFLICT")
             THEN Call(after, TRUE, "", FALSE, <<Issued(c, outcome)>>)
             ELSE Call(after, FALSE, "Failed to merge " \o sourceBranch \o ": " \o message,
                       FALSE, <<Issued(c, outcome)>>)

\* getStatus(): `git status` and `git rev-parse --abbrev-ref HEAD`
getStatus(g, envf) ==
    LET r == Run(g, Cmd("git status", "status", "", ""), envf)
    IN  Call(r.git, r.ok, "Failed to get git status: " \o GitErrorText,
             g.status # {}, r.log)

isMergeInProgress(g) == g.mergeHead

\* the check waitForConflictResolution makes once the operator pressed Enter
\* Variant of the MERGE_HEAD test that reports a merge in progress whatever the
\* state of the working directory.
MergeAlwaysInProgress(g) == TRUE

MergeStillInProgress(g) == isMergeInProgress(g)

StillInProgressError == "Merge is still in progress. Please complete the merge before continuing."

(***************************************************************************)
(* Requests: the PluginContext handed to execute().                        *)
(***************************************************************************)

\* a || b on strings: the empty string is falsy
OrElse(a, b) == IF a = "" THEN b ELSE a

GitManagerPlugins == {"standard-release", "qimacert-release"}

Context(plugin, develop, production, type, autoPush) ==
    [plugin        |-> plugin,
     projectFolder |-> "repo",
     tagName       |-> "1.0.0",
     baseBranches  |-> [develop |-> develop, production |-> production, type |-> type],
     parameters    |-> [version |-> "1.0.0"],
     options       |-> [developBranch |-> "", tagPrefix |-> "", autoPush |-> autoPush]]

\* a request without baseBranches (the field is undefined)
NoBaseBranches == [develop |-> "", production |-> "", type |-> ""]

\* `${v}` in a template literal: a missing (undefined) value, written "" here,
\* is rendered as the text undefined
Template(v) == IF v = "" THEN "undefined" ELSE v

\* requests that lack the project folder, the tag or version, or the base
\* branches
MalformedRequests ==
    LET standard == Context("standard-release", "develop", "master", "standard", TRUE)
        qimacert == Context("qimacert-release", "develop-qimacert", "develop", "custom", TRUE)
        legacy   == Context("qima-legacy-release", "develop-qimacert", "develop", "custom", TRUE)
        qima     == Context("qima-release", "develop", "master", "standard", TRUE)
    IN  {[standard EXCEPT !.projectFolder = ""],
         [standard EXCEPT !.tagName = ""],
         [standard EXCEPT !.baseBranches = NoBaseBranches],
         [qimacert EXCEPT !.tagName = ""],
         [qimacert EXCEPT !.baseBranches = NoBaseBranches],
         [legacy EXCEPT !.projectFolder = ""],
         [legacy EXCEPT !.parameters.version = ""],
         [qima EXCEPT !.projectFolder = ""],
         [qima EXCEPT !.parameters.version = ""]}

Requests ==
    {Context("standard-release", "develop", "master", "standard", TRUE),
     Context("qimacert-release", "develop-qimacert", "develop", "custom", TRUE)}
    \cup {Context("qima-legacy-release", "develop-qimacert", "develop", "custom", a) :
             a \in BOOLEAN}
    \cup {Context("qima-release", "develop", "master", "standard", a) : a \in BOOLEAN}
    \cup {[Context("standard-release", "develop", "master", "standard", TRUE)
               EXCEPT !.projectFolder = "app"],
          [Context("qima-legacy-release", "develop-qimacert", "develop", "custom", TRUE)
               EXCEPT !.options.tagPrefix = "rc_"],
          [Context("qima-release", "main", "master", "standard", TRUE)
               EXCEPT !.options.developBranch = "main"]}
    \cup MalformedRequests

\* the artifact names StandardReleasePlugin.execute computes
StandardNames(context) ==
    [rollbackTag        |-> "rollback_" \o context.baseBranches.develop \o "_v" \o Template(context.tagName),
     releaseBranch      |-> "release_" \o context.baseBranches.develop \o "_" \o Template(context.tagName),
     versionTag         |-> "v_" \o context.projectFolder \o "_" \o Template(context.tagName),
     finalReleaseBranch |-> "release_" \o context.baseBranches.develop \o "_" \o Template(context.tagName)]

\* the artifact names QimacertReleasePlugin.execute computes
QimacertNames(context) ==
    [rollbackTag        |-> "rollback_" \o context.baseBranches.develop \o "_v" \o Template(context.tagName),
     releaseBranch      |-> "release_" \o context.baseBranches.develop \o "_" \o Template(context.tagName),
     versionTag         |-> "v_qimacert_" \o Template(context.tagName),
     finalReleaseBranch |-> "release_develop_" \o Template(context.tagName)]

(***************************************************************************)
(* State                                                                   *)
(*   req          the PluginContext of the run                             *)
(*   pc           the await at which execute() stands                      *)
(*   git          the working directory and origin                         *)
(*   ops          the git commands the run issued, in order, with results  *)
(*   err          the error caught by execute's catch block ("" if none)   *)
(*   thrown       the error execute() rejected with ("" if none)           *)
(*   result       the ReleaseResult of the run                             *)
(*   createdItems QimaReleasePlugin's record of what the run created       *)
(*   hist         what happened in the run (see NoHistory)                 *)
(*   run          number of the run; git0: the working directory when it   *)
(*                started; prevSuccess: the previous run completed         *)
(*   second       a second execute() started in the same directory: where  *)
(*                it stands and the git commands it issued                 *)
(*   cli          the CLI process: command used, whether it ended, exit    *)
(*                code                                                     *)
(***************************************************************************)
VARIABLES req, pc, git, ops, err, thrown, result, createdItems, hist, run, git0, prevSuccess,
          second, cli

vars == <<req, pc, git, ops, err, thrown, result, createdItems, hist, run, git0, prevSuccess,
          second, cli>>

\* the CLI commands that run a release plugin: `run` and `deploy` go through
\* executeCategoryOperations, `release` through startReleaseProcess
Entries == {"category", "release"}

\* no other execute() has been started in this working directory
NoSecondRun == [pc |-> "idle", ops |-> <<>>]

NoResult ==
    [success |-> FALSE, rollbackTag |-> "", releaseBranch |-> "", versionTag |-> "",
     finalReleaseBranch |-> "", error |-> ""]

NoItems == [tag |-> FALSE, tagPushed |-> FALSE, releaseBranch |-> FALSE,
            releaseBranchPushed |-> FALSE]

\* envFail: a command failed for a reason outside the working directory;
\* merge: how `git merge` ended; signal: what the operator answered at the
\* conflict prompt; marker: MERGE_HEAD existed when the operator answered;
\* complete: the merge was concluded then (no MERGE_HEAD, no unmerged path); rollback: performRollback was
\* entered; attempted: the deletions performRollback issued; pending: the
\* error thrown once the rollback offer returns.
NoHistory ==
    [envFail |-> FALSE, merge |-> "none", signal |-> "none", marker |-> FALSE,
     complete |-> FALSE, rollback |-> FALSE, attempted |-> {}, pending |-> ""]

\* the statements of execute() before its try block: the error they throw,
\* "" when they throw none
Rejection(context) ==
    CASE context.plugin = "standard-release" ->
             IF context.projectFolder = "" THEN "Project folder is required"
             ELSE IF context.tagName = "" THEN "Tag name is required"
             ELSE IF context.baseBranches = NoBaseBranches
                  THEN "Base branches configuration is required"
             ELSE ""
      [] context.plugin = "qimacert-release" ->
             IF context.baseBranches = NoBaseBranches
             THEN "TypeError: Cannot read properties of undefined (reading 'develop')"
             ELSE ""
      [] OTHER ->
             IF context.parameters.version = ""
             THEN "Version parameter is required (e.g., \"2.02\")"
             ELSE ""

FirstStep(context) ==
    CASE Rejection(context) # ""                  -> "rejected"
      [] context.plugin \in GitManagerPlugins     -> "fetch"
      [] context.plugin = "qima-legacy-release"   -> "legacyCurrentBranch"
      [] OTHER                                    -> "qimaCurrentBranch"

\* the two long-lived branches of the repository the request is run in
Branches(context) ==
    IF context.baseBranches = NoBaseBranches
    THEN {"develop", "master"}
    ELSE {context.baseBranches.develop, context.baseBranches.production}

Init ==
    /\ req \in Requests
    /\ pc = FirstStep(req)
    /\ \E cur \in Branches(req) :
          git = [cur |-> cur, ltags |-> {}, rtags |-> {},
                 lbranches |-> Branches(req),
                 rbranches |-> Branches(req),
                 mergeHead |-> FALSE, status |-> {}]
    /\ ops = <<>>
    /\ err = ""
    /\ thrown = ""
    /\ result = NoResult
    /\ createdItems = NoItems
    /\ hist = NoHistory
    /\ run = 1
    /\ git0 = git
    /\ prevSuccess = FALSE
    /\ second = NoSecondRun
    /\ \E entry \in Entries : cli = [entry |-> entry, ended |-> FALSE, code |-> 0]

\* the history once a command was issued that the environment made fail (f) or not
Env(f) == [hist EXCEPT !.envFail = @ \/ f]

\* One awaited call inside the try block of execute(): on resolve execute goes
\* on to `next`, on reject control passes to the catch block with the error.
Await(label, call, next, h) ==
    /\ pc = label
    /\ git' = call.git
    /\ ops' = ops \o call.log
    /\ hist' = h
    /\ IF call.ok THEN pc' = next /\ err' = err
                  ELSE pc' = "catch" /\ err' = call.err
    /\ UNCHANGED <<req, thrown, createdItems, run, git0, prevSuccess, second, cli>>

(***************************************************************************)
(* StandardReleasePlugin.execute and QimacertReleasePlugin.execute: the    *)
(* same nine steps on GitManager, with different artifact names.           *)
(***************************************************************************)

Names(context) ==
    IF context.plugin = "qimacert-release" THEN QimacertNames(context)
                                           ELSE StandardNames(context)

IsGitManagerRun == req.plugin \in GitManagerPlugins

\* execute() throws before its try block: nothing is caught, no result kept
Reject ==
    /\ pc = "rejected"
    /\ pc' = "failed"
    /\ thrown' = Rejection(req)
    /\ UNCHANGED <<req, git, ops, err, result, createdItems, hist, run, git0,
                   prevSuccess, second, cli>>

\* Step 1
FetchAndUpdate ==
    /\ IsGitManagerRun
    /\ \E f1, f2 \in BOOLEAN :
          Await("fetch", fetchAndUpdate(git, req.baseBranches, f1, f2), "checkoutDevelop",
                Env(f1 \/ (f2 /\ req.baseBranches.type = "custom")))
    /\ UNCHANGED result

\* Step 2
CheckoutDevelop ==
    /\ IsGitManagerRun
    /\ \E f \in BOOLEAN :
          Await("checkoutDevelop", checkoutBranch(git, req.baseBranches.develop, f),
                "pullDevelop", Env(f))
    /\ UNCHANGED result

PullDevelop ==
    /\ IsGitManagerRun
    /\ \E f \in BOOLEAN :
          Await("pullDevelop", pullBranch(git, req.baseBranches.develop, f),
                "createRollbackTag", Env(f))
    /\ UNCHANGED result

\* Step 3
CreateRollbackTag ==
    /\ IsGitManagerRun
    /\ \E f \in BOOLEAN :
          Await("createRollbackTag", createTag(git, Names(req).rollbackTag, f),
                "pushRollbackTag", Env(f))
    /\ UNCHANGED result

PushRollbackTag ==
    /\ IsGitManagerRun
    /\ \E f \in BOOLEAN :
          LET call == pushTag(git, Names(req).rollbackTag, f)
          IN  /\ Await("pushRollbackTag", call, "createReleaseBranch", Env(f))
              /\ result' = IF call.ok
                           THEN [result EXCEPT !.rollbackTag = Names(req).rollbackTag]
                           ELSE result

\* Step 4
CreateReleaseBranch ==
    /\ IsGitManagerRun
    /\ \E f \in BOOLEAN :
          LET call == createBranch(git, Names(req).releaseBranch, req.baseBranches.develop, f)
          IN  /\ Await("createReleaseBranch", call, "checkoutProduction", Env(f))
              /\ result' = IF call.ok
                           THEN [result EXCEPT !.releaseBranch = Names(req).releaseBranch]
                           ELSE result

\* Step 5
CheckoutProduction ==
    /\ IsGitManagerRun
    /\ \E f \in BOOLEAN :
          Await("checkoutProduction", checkoutBranch(git, req.baseBranches.production, f),
                "pullProduction", Env(f))
    /\ UNCHANGED result

PullProduction ==
    /\ IsGitManagerRun
    /\ \E f \in BOOLEAN :
          Await("pullProduction", pullBranch(git, req.baseBranches.production, f),
                "checkoutRelease", Env(f))
    /\ UNCHANGED result

\* Step 6
CheckoutRelease ==
    /\ IsGitManagerRun
    /\ \E f \in BOOLEAN :
          Await("checkoutRelease", checkoutBranch(git, Names(req).releaseBranch, f), "merge", Env(f))
    /\ UNCHANGED result

MergeProduction ==
    /\ IsGitManagerRun
    /\ \E outcome \in MergeOutcomes :
       \E code \in IF outcome = "conflict" THEN ConflictCodes ELSE {"UU"} :
          LET call == mergeBranch(git, req.baseBranches.production, outcome, code)
          IN  Await("merge", call, IF call.ret THEN "createVersionTag" ELSE "conflictStatus",
                    [hist EXCEPT !.merge = outcome])
    /\ UNCHANGED result

\* waitForConflictResolution up to rl.question: the conflicts are listed
ConflictStatus ==
    /\ IsGitManagerRun
    /\ \E f \in BOOLEAN : Await("conflictStatus", getStatus(git, f), "waitEnter", Env(f))
    /\ UNCHANGED result

\* The operator, while the run waits at the prompt: `git add` of the resolved files
OperatorStage ==
    /\ pc \in {"waitEnter", "legacyPrompt"}
    /\ git.status # {}
    /\ git' = [git EXCEPT !.status = {}]
    /\ UNCHANGED <<req, pc, ops, err, thrown, result, createdItems, hist, run, git0, prevSuccess, second, cli>>

\* The operator, while the run waits at the prompt: `git commit` concludes the merge
OperatorCommit ==
    /\ pc \in {"waitEnter", "legacyPrompt"}
    /\ git.mergeHead
    /\ git.status = {}
    /\ git' = [git EXCEPT !.mergeHead = FALSE]
    /\ UNCHANGED <<req, pc, ops, err, thrown, result, createdItems, hist, run, git0, prevSuccess, second, cli>>

MergeComplete(g) == ~g.mergeHead /\ g.status = {}

\* the history once the operator answered the conflict prompt
Answered(action) ==
    [hist EXCEPT !.signal = action, !.marker = git.mergeHead, !.complete = MergeComplete(git)]

\* waitForConflictResolution after rl.question: the operator pressed Enter
PressEnter ==
    /\ IsGitManagerRun
    /\ pc = "waitEnter"
    /\ hist' = Answered("continue")
    /\ IF MergeStillInProgress(git)
       THEN pc' = "catch" /\ err' = StillInProgressError
       ELSE pc' = "createVersionTag" /\ err' = err
    /\ UNCHANGED <<req, git, ops, thrown, result, createdItems, run, git0, prevSuccess, second, cli>>

\* Step 7
CreateVersionTag ==
    /\ IsGitManagerRun
    /\ \E f \in BOOLEAN :
          Await("createVersionTag", createTag(git, Names(req).versionTag, f),
                "pushVersionTag", Env(f))
    /\ UNCHANGED result

PushVersionTag ==
    /\ IsGitManagerRun
    /\ \E f \in BOOLEAN :
          LET call == pushTag(git, Names(req).versionTag, f)
          IN  /\ Await("pushVersionTag", call, "pushReleaseBranch", Env(f))
              /\ result' = IF call.ok
                           THEN [result EXCEPT !.versionTag = Names(req).versionTag]
                           ELSE result

\* Step 8
PushReleaseBranch ==
    /\ IsGitManagerRun
    /\ \E f \in BOOLEAN :
          Await("pushReleaseBranch", pushBranch(git, Names(req).releaseBranch, TRUE, f),
                "createFinalBranch", Env(f))
    /\ UNCHANGED result

\* Step 9
CreateFinalBranch ==
    /\ IsGitManagerRun
    /\ \E f \in BOOLEAN :
          Await("createFinalBranch",
                createBranch(git, Names(req).finalReleaseBranch, Names(req).releaseBranch, f),
                "pushFinalBranch", Env(f))
    /\ UNCHANGED result

PushFinalBranch ==
    /\ IsGitManagerRun
    /\ \E f \in BOOLEAN :
          LET call == pushBranch(git, Names(req).finalReleaseBranch, FALSE, f)
          IN  /\ Await("pushFinalBranch", call, "done", Env(f))
              /\ result' = IF call.ok
                           THEN [result EXCEPT
                                    !.finalReleaseBranch = Names(req).finalReleaseBranch,
                                    !.success = TRUE]
                           ELSE result

\* Variant of the catch block that rethrows without recording the error.
CatchKeepsResult ==
    /\ IsGitManagerRun
    /\ pc = "catch"
    /\ thrown' = err
    /\ pc' = "failed"
    /\ UNCHANGED <<req, git, ops, err, result, createdItems, hist, run, git0, prevSuccess,
                   second, cli>>

\* catch (error) { result.error = ...; throw error }
Catch ==
    /\ IsGitManagerRun
    /\ pc = "catch"
    /\ result' = [result EXCEPT !.error = err]
    /\ thrown' = err
    /\ pc' = "failed"
    /\ UNCHANGED <<req, git, ops, err, createdItems, hist, run, git0, prevSuccess, second, cli>>

(***************************************************************************)
(* executeCommand of the exec based plugins: child_process.exec of a git   *)
(* command line.  stderr = "" when nothing outside the working directory   *)
(* makes the command fail; otherwise the text git printed.                 *)
(***************************************************************************)

NetworkError == "fatal: unable to access origin"

\* what `git status --porcelain` prints: unmerged paths with their XY code,
\* paths staged during a merge as modified
Porcelain(g) ==
    IF g.status # {} THEN (CHOOSE code \in g.status : TRUE) \o " file"
    ELSE IF g.mergeHead THEN "M  file"
    ELSE ""

Stdout(g, c) ==
    CASE c.op = "currentBranch" -> g.cur
      [] c.op = "status"        -> Porcelain(g)
      [] OTHER                  -> ""

executeCommand(g, c, stderr) ==
    LET r == Run(g, c, stderr # "")
    IN  Call(r.git, r.ok,
             "Command failed: " \o c.text \o ": "
                 \o (IF stderr # "" THEN stderr ELSE "fatal: rejected"),
             Stdout(g, c), r.log)

\* exec of `git merge`: the promise rejects unless the merge ended cleanly
executeMerge(g, sourceBranch, outcome, code) ==
    LET c == Cmd("git merge " \o sourceBranch, "merge", sourceBranch, "")
    IN  Call(MergeEffect(g, outcome, code), outcome = "clean",
             "Command failed: " \o c.text \o ": " \o MergeMessage(outcome), "",
             <<Issued(c, IF outcome = "clean" THEN "ok" ELSE outcome)>>)

(***************************************************************************)
(* QimaLegacyReleasePlugin.execute                                         *)
(***************************************************************************)

LegacySettings(context) ==
    [developBranch       |-> OrElse(context.options.developBranch, "develop"),
     qimacertBranch      |-> "develop-qimacert",
     tagPrefix           |-> OrElse(context.options.tagPrefix, "v_qimacert_"),
     rollbackPrefix      |-> "rollback_develop_qimacert_v",
     releaseBranchPrefix |-> "release_develop_qimacert_",
     finalReleasePrefix  |-> "release_develop_",
     autoPush            |-> context.options.autoPush # FALSE]

LegacyNames(context) ==
    [rollbackTag        |-> LegacySettings(context).rollbackPrefix \o context.parameters.version,
     releaseBranch      |-> LegacySettings(context).releaseBranchPrefix
                                \o context.parameters.version,
     versionTag         |-> LegacySettings(context).tagPrefix \o context.parameters.version,
     finalReleaseBranch |-> LegacySettings(context).finalReleasePrefix
                                \o context.parameters.version]

IsLegacyRun == req.plugin = "qima-legacy-release"

\* one `await this.executeCommand(...)` of the try block
LegacyExec(label, c, next) ==
    /\ \E stderr \in {"", NetworkError} :
          Await(label, executeCommand(git, c, stderr), next, Env(stderr # ""))
    /\ UNCHANGED result

\* Step 0
LegacyCurrentBranch ==
    /\ IsLegacyRun
    /\ \E stderr \in {"", NetworkError} :
          LET call == executeCommand(git, Cmd("git branch --show-current", "currentBranch", "", ""),
                                     stderr)
          IN  Await("legacyCurrentBranch", call,
                    IF call.ret = LegacySettings(req).qimacertBranch
                    THEN "legacySwitch" ELSE "legacyFetch",
                    Env(stderr # ""))
    /\ UNCHANGED result

LegacySwitch ==
    /\ IsLegacyRun
    /\ LegacyExec("legacySwitch",
               Cmd("git checkout " \o LegacySettings(req).developBranch, "checkout",
                   LegacySettings(req).developBranch, ""),
               "legacyFetch")

\* Step 1
LegacyFetch ==
    /\ IsLegacyRun
    /\ LegacyExec("legacyFetch", Cmd("git fetch --prune", "fetch", "", ""), "legacyFetchBranch")

\* Step 2
LegacyFetchBranch ==
    /\ IsLegacyRun
    /\ LegacyExec("legacyFetchBranch",
               Cmd("git fetch origin " \o LegacySettings(req).qimacertBranch \o ":"
                       \o LegacySettings(req).qimacertBranch
                       \o " --recurse-submodules=no --progress --prune",
                   "fetchBranch", LegacySettings(req).qimacertBranch, ""),
               "legacyCheckoutQimacert")

\* Step 3
LegacyCheckoutQimacert ==
    /\ IsLegacyRun
    /\ LegacyExec("legacyCheckoutQimacert",
               Cmd("git checkout " \o LegacySettings(req).qimacertBranch, "checkout",
                   LegacySettings(req).qimacertBranch, ""),
               "legacyPullQimacert")

\* Step 4
LegacyPullQimacert ==
    /\ IsLegacyRun
    /\ LegacyExec("legacyPullQimacert",
               Cmd("git pull origin " \o LegacySettings(req).qimacertBranch, "pull",
                   LegacySettings(req).qimacertBranch, ""),
               "legacyTagRollback")

\* Step 5
LegacyTagRollback ==
    /\ IsLegacyRun
    /\ LegacyExec("legacyTagRollback",
               Cmd("git tag " \o LegacyNames(req).rollbackTag, "tag",
                   LegacyNames(req).rollbackTag, ""),
               IF LegacySettings(req).autoPush THEN "legacyPushRollback"
                                               ELSE "legacyCreateRelease")

\* Step 5a
LegacyPushRollback ==
    /\ IsLegacyRun
    /\ LegacyExec("legacyPushRollback",
               Cmd("git push origin " \o LegacyNames(req).rollbackTag, "pushTag",
                   LegacyNames(req).rollbackTag, ""),
               "legacyCreateRelease")

\* Step 6
LegacyCreateRelease ==
    /\ IsLegacyRun
    /\ LegacyExec("legacyCreateRelease",
               Cmd("git checkout -b " \o LegacyNames(req).releaseBranch \o " "
                       \o LegacySettings(req).qimacertBranch,
                   "createBranch", LegacyNames(req).releaseBranch,
                   LegacySettings(req).qimacertBranch),
               "legacyCheckoutDevelop")

\* Step 7
LegacyCheckoutDevelop ==
    /\ IsLegacyRun
    /\ LegacyExec("legacyCheckoutDevelop",
               Cmd("git checkout " \o LegacySettings(req).developBranch, "checkout",
                   LegacySettings(req).developBranch, ""),
               "legacyPullDevelop")

\* Step 8
LegacyPullDevelop ==
    /\ IsLegacyRun
    /\ LegacyExec("legacyPullDevelop",
               Cmd("git pull origin " \o LegacySettings(req).developBranch, "pull",
                   LegacySettings(req).developBranch, ""),
               "legacyCheckoutRelease")

\* Step 9
LegacyCheckoutRelease ==
    /\ IsLegacyRun
    /\ LegacyExec("legacyCheckoutRelease",
               Cmd("git checkout " \o LegacyNames(req).releaseBranch, "checkout",
                   LegacyNames(req).releaseBranch, ""),
               "legacyMerge")

\* Step 10: any rejection of `git merge` is taken for a conflict and leads to the prompt
LegacyMerge ==
    /\ IsLegacyRun
    /\ pc = "legacyMerge"
    /\ \E outcome \in MergeOutcomes :
       \E code \in IF outcome = "conflict" THEN ConflictCodes ELSE {"UU"} :
          LET call == executeMerge(git, LegacySettings(req).developBranch, outcome, code)
          IN  /\ git' = call.git
              /\ ops' = ops \o call.log
              /\ hist' = [hist EXCEPT !.merge = outcome]
              /\ pc' = IF call.ok THEN "legacyTagVersion" ELSE "legacyPrompt"
    /\ UNCHANGED <<req, err, thrown, result, createdItems, run, git0, prevSuccess, second, cli>>

\* the choices of the inquirer list prompt
LegacyChoices == {"continue", "abort"}

\* Variant of the prompt that gives up waiting and resumes with no answer.
LegacyAnswersTimeout(action) ==
    /\ IsLegacyRun
    /\ pc = "legacyPrompt"
    /\ pc' = IF action = "abort" THEN "legacyMergeAbort" ELSE "legacyMergeStatus"
    /\ UNCHANGED <<req, git, ops, err, thrown, result, createdItems, hist, run, git0,
                   prevSuccess, second, cli>>

\* inquirer.prompt resolves with the operator's choice
LegacyAnswers(action) ==
    /\ IsLegacyRun
    /\ pc = "legacyPrompt"
    /\ hist' = Answered(action)
    /\ pc' = IF action = "abort" THEN "legacyMergeAbort" ELSE "legacyMergeStatus"
    /\ UNCHANGED <<req, git, ops, err, thrown, result, createdItems, run, git0, prevSuccess, second, cli>>

LegacyAnswer == \E action \in LegacyChoices : LegacyAnswers(action)

\* action === 'abort': `git merge --abort`, then throw
LegacyMergeAbort ==
    /\ IsLegacyRun
    /\ pc = "legacyMergeAbort"
    /\ \E stderr \in {"", NetworkError} :
          LET call == executeCommand(git, Cmd("git merge --abort", "mergeAbort", "", ""), stderr)
          IN  /\ git' = call.git
              /\ ops' = ops \o call.log
              /\ hist' = Env(stderr # "")
              /\ err' = IF call.ok THEN "Merge aborted by user" ELSE call.err
    /\ pc' = "catch"
    /\ UNCHANGED <<req, thrown, result, createdItems, run, git0, prevSuccess, second, cli>>

\* the test made on the output of `git status --porcelain`
ConflictsStillExist(mergeStatus) == Includes(mergeStatus, "UU") \/ Includes(mergeStatus, "AA")

\* action === 'continue': `git status --porcelain` decides whether the run goes on
LegacyMergeStatus ==
    /\ IsLegacyRun
    /\ pc = "legacyMergeStatus"
    /\ \E stderr \in {"", NetworkError} :
          LET call == executeCommand(git, Cmd("git status --porcelain", "status", "", ""), stderr)
          IN  /\ git' = call.git
              /\ ops' = ops \o call.log
              /\ hist' = Env(stderr # "")
              /\ IF ~call.ok THEN pc' = "catch" /\ err' = call.err
                 ELSE IF ConflictsStillExist(call.ret)
                      THEN pc' = "catch" /\ err' = "Merge conflicts not fully resolved"
                      ELSE pc' = "legacyTagVersion" /\ err' = err
    /\ UNCHANGED <<req, thrown, result, createdItems, run, git0, prevSuccess, second, cli>>

\* Step 11
LegacyTagVersion ==
    /\ IsLegacyRun
    /\ LegacyExec("legacyTagVersion",
               Cmd("git tag " \o LegacyNames(req).versionTag, "tag",
                   LegacyNames(req).versionTag, ""),
               IF LegacySettings(req).autoPush THEN "legacyPushVersion"
                                               ELSE "legacyPushRelease")

\* Step 11a
LegacyPushVersion ==
    /\ IsLegacyRun
    /\ LegacyExec("legacyPushVersion",
               Cmd("git push origin " \o LegacyNames(req).versionTag, "pushTag",
                   LegacyNames(req).versionTag, ""),
               "legacyPushRelease")

\* Step 12
LegacyPushRelease ==
    /\ IsLegacyRun
    /\ LegacyExec("legacyPushRelease",
               Cmd("git push --set-upstream origin " \o LegacyNames(req).releaseBranch,
                   "pushBranch", LegacyNames(req).releaseBranch, ""),
               "legacyCreateFinal")

\* Step 13
LegacyCreateFinal ==
    /\ IsLegacyRun
    /\ LegacyExec("legacyCreateFinal",
               Cmd("git checkout -b " \o LegacyNames(req).finalReleaseBranch,
                   "createBranch", LegacyNames(req).finalReleaseBranch, "HEAD"),
               "legacyPushFinal")

\* Step 14
LegacyPushFinal ==
    /\ IsLegacyRun
    /\ LegacyExec("legacyPushFinal",
               Cmd("git push origin " \o LegacyNames(req).finalReleaseBranch,
                   "pushBranch", LegacyNames(req).finalReleaseBranch, ""),
               "done")

\* catch (error) { console.error(...); throw error }
LegacyCatch ==
    /\ IsLegacyRun
    /\ pc = "catch"
    /\ thrown' = err
    /\ pc' = "failed"
    /\ UNCHANGED <<req, git, ops, err, result, createdItems, hist, run, git0, prevSuccess, second, cli>>

(***************************************************************************)
(* QimaReleasePlugin.execute, with its failure handler (handleMergeConflict,*)
(* offerRollback, performRollback)                                          *)
(***************************************************************************)

\* a text on stderr that mentions a merge conflict
ConflictError == "error: merge conflict in file"

QimaSettings(context) ==
    [developBranch       |-> OrElse(context.options.developBranch, "develop"),
     masterBranch        |-> "master",
     tagPrefix           |-> OrElse(context.options.tagPrefix, "v_qimacert_"),
     releaseBranchPrefix |-> "release_",
     autoPush            |-> context.options.autoPush # FALSE]

QimaNames(context) ==
    [versionTag    |-> QimaSettings(context).tagPrefix \o context.parameters.version,
     releaseBranch |-> QimaSettings(context).releaseBranchPrefix
                           \o QimaSettings(context).tagPrefix \o context.parameters.version]

IsQimaRun == req.plugin = "qima-release"

\* one `await this.executeCommand(...)` of the try block; `items` is createdItems
\* once the command succeeded
QimaExec(label, c, next, items) ==
    /\ \E stderr \in {"", NetworkError, ConflictError} :
          LET call == executeCommand(git, c, stderr)
          IN  /\ pc = label
              /\ git' = call.git
              /\ ops' = ops \o call.log
              /\ hist' = Env(stderr # "")
              /\ IF call.ok THEN pc' = next /\ err' = err /\ createdItems' = items
                            ELSE pc' = "catch" /\ err' = call.err /\ createdItems' = createdItems
    /\ UNCHANGED <<req, thrown, result, run, git0, prevSuccess, second, cli>>

\* Step 1
QimaCurrentBranch ==
    /\ IsQimaRun
    /\ pc = "qimaCurrentBranch"
    /\ \E stderr \in {"", NetworkError, ConflictError} :
          LET call == executeCommand(git, Cmd("git branch --show-current", "currentBranch", "", ""),
                                     stderr)
          IN  /\ git' = call.git
              /\ ops' = ops \o call.log
              /\ hist' = Env(stderr # "")
              /\ IF call.ok
                 THEN /\ err' = err
                      /\ pc' = IF call.ret # QimaSettings(req).developBranch
                               THEN "qimaSwitch" ELSE "qimaFetch"
                 ELSE pc' = "catch" /\ err' = call.err
    /\ UNCHANGED <<req, thrown, result, createdItems, run, git0, prevSuccess, second, cli>>

QimaSwitch ==
    /\ IsQimaRun
    /\ QimaExec("qimaSwitch",
                Cmd("git checkout " \o QimaSettings(req).developBranch, "checkout",
                    QimaSettings(req).developBranch, ""),
                "qimaFetch", createdItems)

\* Step 2
QimaFetch ==
    /\ IsQimaRun
    /\ QimaExec("qimaFetch", Cmd("git fetch --prune", "fetch", "", ""), "qimaPull", createdItems)

QimaPull ==
    /\ IsQimaRun
    /\ QimaExec("qimaPull",
                Cmd("git pull origin " \o QimaSettings(req).developBranch, "pull",
                    QimaSettings(req).developBranch, ""),
                "qimaTag", createdItems)

\* Variant of step 3 that records the tag as created before `git tag -a` returned.
QimaTagFlagFirst ==
    /\ IsQimaRun
    /\ pc = "qimaTag"
    /\ \E stderr \in {"", NetworkError, ConflictError} :
          LET call == executeCommand(git, Cmd("git tag -a " \o QimaNames(req).versionTag, "tag",
                                              QimaNames(req).versionTag, ""), stderr)
          IN  /\ git' = call.git
              /\ ops' = ops \o call.log
              /\ hist' = Env(stderr # "")
              /\ createdItems' = [createdItems EXCEPT !.tag = TRUE]
              /\ IF call.ok
                 THEN /\ err' = err
                      /\ pc' = IF QimaSettings(req).autoPush THEN "qimaPushTag"
                                                             ELSE "qimaCreateRelease"
                 ELSE pc' = "catch" /\ err' = call.err
    /\ UNCHANGED <<req, thrown, result, run, git0, prevSuccess, second, cli>>

\* Step 3
QimaTag ==
    /\ IsQimaRun
    /\ QimaExec("qimaTag",
                Cmd("git tag -a " \o QimaNames(req).versionTag, "tag",
                    QimaNames(req).versionTag, ""),
                IF QimaSettings(req).autoPush THEN "qimaPushTag" ELSE "qimaCreateRelease",
                [createdItems EXCEPT !.tag = TRUE])

\* Step 3a
QimaPushTag ==
    /\ IsQimaRun
    /\ QimaExec("qimaPushTag",
                Cmd("git push origin " \o QimaNames(req).versionTag, "pushTag",
                    QimaNames(req).versionTag, ""),
                "qimaCreateRelease", [createdItems EXCEPT !.tagPushed = TRUE])

\* Variant of step 4 that forgets to record the release branch as created.
QimaCreateReleaseNoFlag ==
    /\ IsQimaRun
    /\ QimaExec("qimaCreateRelease",
                Cmd("git checkout -b " \o QimaNames(req).releaseBranch \o " "
                        \o QimaNames(req).versionTag,
                    "createBranch", QimaNames(req).releaseBranch, QimaNames(req).versionTag),
                "qimaPushRelease", createdItems)

\* Step 4
QimaCreateRelease ==
    /\ IsQimaRun
    /\ QimaExec("qimaCreateRelease",
                Cmd("git checkout -b " \o QimaNames(req).releaseBranch \o " "
                        \o QimaNames(req).versionTag,
                    "createBranch", QimaNames(req).releaseBranch, QimaNames(req).versionTag),
                "qimaPushRelease", [createdItems EXCEPT !.releaseBranch = TRUE])

\* Step 5
QimaPushRelease ==
    /\ IsQimaRun
    /\ QimaExec("qimaPushRelease",
                Cmd("git push -u origin " \o QimaNames(req).releaseBranch, "pushBranch",
                    QimaNames(req).releaseBranch, ""),
                "done", [createdItems EXCEPT !.releaseBranchPushed = TRUE])

\* an error leaves the failure handler and rejects execute()
Throw(e) == pc' = "failed" /\ thrown' = e

\* Variant of offerRollback that asks whether or not anything was created.
offerRollbackAlways(e) ==
    /\ pc' = "qimaRollbackPrompt"
    /\ thrown' = thrown
    /\ hist' = [hist EXCEPT !.pending = e]

\* offerRollback up to its prompt; `e` is the error thrown once it returned
offerRollback(e) ==
    IF createdItems.tag \/ createdItems.releaseBranch
    THEN /\ pc' = "qimaRollbackPrompt"
         /\ thrown' = thrown
         /\ hist' = [hist EXCEPT !.pending = e]
    ELSE Throw(e) /\ hist' = hist

\* catch (error): a message that mentions a merge conflict leads to
\* handleMergeConflict, any other to offerRollback
QimaCatch ==
    /\ IsQimaRun
    /\ pc = "catch"
    /\ IF Includes(err, "merge conflict")
       THEN pc' = "qimaConflictPrompt" /\ UNCHANGED <<thrown, hist>>
       ELSE offerRollback(err)
    /\ UNCHANGED <<req, git, ops, err, result, createdItems, run, git0, prevSuccess, second, cli>>

\* handleMergeConflict: inquirer.prompt resolves with the operator's choice
QimaConflictAnswers(action) ==
    /\ IsQimaRun
    /\ pc = "qimaConflictPrompt"
    /\ hist' = Answered(action)
    /\ pc' = IF action = "abort" THEN "qimaMergeAbort" ELSE "qimaMergeStatus"
    /\ UNCHANGED <<req, git, ops, err, thrown, result, createdItems, run, git0, prevSuccess, second, cli>>

QimaConflictAnswer == \E action \in LegacyChoices : QimaConflictAnswers(action)

\* handleMergeConflict, abort: `git merge --abort`, the rollback offer, then throw
QimaMergeAbort ==
    /\ IsQimaRun
    /\ pc = "qimaMergeAbort"
    /\ \E stderr \in {"", NetworkError} :
          LET call == executeCommand(git, Cmd("git merge --abort", "mergeAbort", "", ""), stderr)
          IN  /\ git' = call.git
              /\ ops' = ops \o call.log
              /\ IF call.ok
                 THEN /\ offerRollback("Merge aborted by user")
                 ELSE /\ Throw(call.err)
                      /\ hist' = Env(stderr # "")
    /\ UNCHANGED <<req, err, result, createdItems, run, git0, prevSuccess, second, cli>>

\* handleMergeConflict, continue: the status test; when it passes the handler
\* returns and the catch block rethrows the error it caught
QimaMergeStatus ==
    /\ IsQimaRun
    /\ pc = "qimaMergeStatus"
    /\ \E stderr \in {"", NetworkError} :
          LET call == executeCommand(git, Cmd("git status --porcelain", "status", "", ""), stderr)
          IN  /\ git' = call.git
              /\ ops' = ops \o call.log
              /\ hist' = Env(stderr # "")
              /\ IF ~call.ok THEN Throw(call.err)
                 ELSE IF ConflictsStillExist(call.ret)
                      THEN Throw("Merge conflicts not fully resolved")
                      ELSE Throw(err)
    /\ UNCHANGED <<req, err, result, createdItems, run, git0, prevSuccess, second, cli>>

\* the deletions of performRollback in the order the code issues them, each
\* with the createdItems flag that guards it
RollbackSteps ==
    <<[label |-> "rollbackDeleteBranch",       flag |-> createdItems.releaseBranch],
      [label |-> "rollbackDeleteTag",          flag |-> createdItems.tag],
      [label |-> "rollbackDeleteRemoteTag",    flag |-> createdItems.tagPushed],
      [label |-> "rollbackDeleteRemoteBranch", flag |-> createdItems.releaseBranchPushed]>>

\* the first deletion after the i-th whose flag is set; "rollbackEnd" when none is
RollbackNext(i) ==
    LET later == {j \in (i + 1)..Len(RollbackSteps) : RollbackSteps[j].flag}
    IN  IF later = {} THEN "rollbackEnd"
        ELSE RollbackSteps[CHOOSE j \in later : \A k \in later : j <= k].label

\* offerRollback: the confirm prompt resolves; performRollback on yes
QimaRollbackAnswer ==
    /\ IsQimaRun
    /\ pc = "qimaRollbackPrompt"
    /\ \E rollback \in BOOLEAN :
          IF rollback
          THEN /\ pc' = "rollbackCheckout"
               /\ hist' = [hist EXCEPT !.rollback = TRUE]
               /\ thrown' = thrown
          ELSE Throw(hist.pending) /\ hist' = hist
    /\ UNCHANGED <<req, git, ops, err, result, createdItems, run, git0, prevSuccess, second, cli>>

\* Variant of performRollback without its catch: the error of the command that
\* failed leaves performRollback.
RollbackExecThrows(label, c, i) ==
    /\ pc = label
    /\ \E stderr \in {"", NetworkError} :
          LET call == executeCommand(git, c, stderr)
          IN  /\ git' = call.git
              /\ ops' = ops \o call.log
              /\ hist' = [hist EXCEPT !.envFail = @ \/ (stderr # ""),
                                      !.attempted = @ \cup {label}]
              /\ IF ~call.ok THEN Throw(call.err)
                 ELSE IF RollbackNext(i) = "rollbackEnd" THEN Throw(hist.pending)
                 ELSE pc' = RollbackNext(i) /\ thrown' = thrown
    /\ UNCHANGED <<req, err, result, createdItems, run, git0, prevSuccess, second, cli>>

\* one command of performRollback's try block: the first that fails ends the
\* rollback (catch (rollbackError) only reports); performRollback and
\* offerRollback then return and the pending error is thrown
RollbackExec(label, c, i) ==
    /\ pc = label
    /\ \E stderr \in {"", NetworkError} :
          LET call == executeCommand(git, c, stderr)
              next == IF call.ok THEN RollbackNext(i) ELSE "rollbackEnd"
          IN  /\ git' = call.git
              /\ ops' = ops \o call.log
              /\ hist' = [hist EXCEPT !.envFail = @ \/ (stderr # ""),
                                      !.attempted = @ \cup {label}]
              /\ IF next = "rollbackEnd" THEN Throw(hist.pending)
                                         ELSE pc' = next /\ thrown' = thrown
    /\ UNCHANGED <<req, err, result, createdItems, run, git0, prevSuccess, second, cli>>

RollbackCheckout ==
    /\ IsQimaRun
    /\ RollbackExec("rollbackCheckout", Cmd("git checkout develop", "checkout", "develop", ""), 0)

RollbackDeleteBranch ==
    /\ IsQimaRun
    /\ RollbackExec("rollbackDeleteBranch",
                    Cmd("git branch -D " \o QimaNames(req).releaseBranch, "deleteBranch",
                        QimaNames(req).releaseBranch, ""), 1)

RollbackDeleteTag ==
    /\ IsQimaRun
    /\ RollbackExec("rollbackDeleteTag",
                    Cmd("git tag -d " \o QimaNames(req).versionTag, "deleteTag",
                        QimaNames(req).versionTag, ""), 2)

RollbackDeleteRemoteTag ==
    /\ IsQimaRun
    /\ RollbackExec("rollbackDeleteRemoteTag",
                    Cmd("git push origin --delete " \o QimaNames(req).versionTag, "deleteRemote",
                        QimaNames(req).versionTag, ""), 3)

RollbackDeleteRemoteBranch ==
    /\ IsQimaRun
    /\ RollbackExec("rollbackDeleteRemoteBranch",
                    Cmd("git push origin --delete " \o QimaNames(req).releaseBranch,
                        "deleteRemote", QimaNames(req).releaseBranch, ""), 4)

(***************************************************************************)
(* The CLI around execute(): what becomes of the process once the plugin   *)
(* returned or threw.  The operators give the exit code of the process.    *)
(***************************************************************************)

QimaPlugins == {"qima-release", "qima-legacy-release"}

\* try { executePlugin } catch (error) { spinner.fail(...) }: returns normally
executeCategoryOperations(failed) == 0

\* try { executePlugin } catch (error) { spinner.fail('Release failed'); throw error }
executeRelease(failed) == [threw |-> failed]

\* QIMA plugins run inside an inner try/catch that only reports; the others
\* go through executeRelease, whose error reaches the outer catch: process.exit(1)
startReleaseProcess(plugin, failed) ==
    IF plugin \in QimaPlugins THEN 0
    ELSE IF executeRelease(failed).threw THEN 1 ELSE 0

\* the command's action returned (or called process.exit): the process ends
ProcessEnds ==
    /\ pc \in {"done", "failed"}
    /\ ~cli.ended
    /\ cli' = [cli EXCEPT !.ended = TRUE,
                          !.code = IF cli.entry = "category"
                                   THEN executeCategoryOperations(pc = "failed")
                                   ELSE startReleaseProcess(req.plugin, pc = "failed")]
    /\ UNCHANGED <<req, pc, git, ops, err, thrown, result, createdItems, hist, run, git0,
                   prevSuccess, second>>

(***************************************************************************)
(* The operator runs the same request again in the same working directory. *)
(***************************************************************************)
Rerun ==
    /\ pc \in {"done", "failed"}
    /\ run < MaxRuns
    /\ run' = run + 1
    /\ prevSuccess' = (pc = "done")
    /\ git0' = git
    /\ pc' = FirstStep(req)
    /\ ops' = <<>>
    /\ err' = ""
    /\ thrown' = ""
    /\ result' = NoResult
    /\ createdItems' = NoItems
    /\ hist' = NoHistory
    /\ cli.ended
    /\ cli' = [cli EXCEPT !.ended = FALSE, !.code = 0]
    /\ UNCHANGED <<req, git, second>>

Next ==
    \/ Reject
    \/ FetchAndUpdate \/ CheckoutDevelop \/ PullDevelop
    \/ CreateRollbackTag \/ PushRollbackTag \/ CreateReleaseBranch
    \/ CheckoutProduction \/ PullProduction \/ CheckoutRelease
    \/ MergeProduction \/ ConflictStatus \/ OperatorStage \/ OperatorCommit \/ PressEnter
    \/ CreateVersionTag \/ PushVersionTag \/ PushReleaseBranch
    \/ CreateFinalBranch \/ PushFinalBranch \/ Catch
    \/ LegacyCurrentBranch \/ LegacySwitch \/ LegacyFetch \/ LegacyFetchBranch
    \/ LegacyCheckoutQimacert \/ LegacyPullQimacert \/ LegacyTagRollback
    \/ LegacyPushRollback \/ LegacyCreateRelease \/ LegacyCheckoutDevelop
    \/ LegacyPullDevelop \/ LegacyCheckoutRelease \/ LegacyMerge \/ LegacyAnswer
    \/ LegacyMergeAbort \/ LegacyMergeStatus \/ LegacyTagVersion \/ LegacyPushVersion
    \/ LegacyPushRelease \/ LegacyCreateFinal \/ LegacyPushFinal \/ LegacyCatch
    \/ QimaCurrentBranch \/ QimaSwitch \/ QimaFetch \/ QimaPull \/ QimaTag \/ QimaPushTag
    \/ QimaCreateRelease \/ QimaPushRelease \/ QimaCatch \/ QimaConflictAnswer
    \/ QimaMergeAbort \/ QimaMergeStatus \/ QimaRollbackAnswer
    \/ RollbackCheckout \/ RollbackDeleteBranch \/ RollbackDeleteTag
    \/ RollbackDeleteRemoteTag
    \/ ProcessEnds
    \/ Rerun

\* Runs of execute().  The last statement of QimaReleasePlugin's try block that
\* can fail is the one that sets createdItems.releaseBranchPushed, so no run
\* enters performRollback with that flag set: RollbackDeleteRemoteBranch is a
\* step of SpecRollback only.
Spec == Init /\ [][Next]_vars

\* The statements of execute() and of the methods it awaits: every action but
\* the operator's (staging, committing, answering a prompt, running again).
ProgramStep ==
    \/ Reject
    \/ FetchAndUpdate \/ CheckoutDevelop \/ PullDevelop
    \/ CreateRollbackTag \/ PushRollbackTag \/ CreateReleaseBranch
    \/ CheckoutProduction \/ PullProduction \/ CheckoutRelease
    \/ MergeProduction \/ ConflictStatus
    \/ CreateVersionTag \/ PushVersionTag \/ PushReleaseBranch
    \/ CreateFinalBranch \/ PushFinalBranch \/ Catch
    \/ LegacyCurrentBranch \/ LegacySwitch \/ LegacyFetch \/ LegacyFetchBranch
    \/ LegacyCheckoutQimacert \/ LegacyPullQimacert \/ LegacyTagRollback
    \/ LegacyPushRollback \/ LegacyCreateRelease \/ LegacyCheckoutDevelop
    \/ LegacyPullDevelop \/ LegacyCheckoutRelease \/ LegacyMerge
    \/ LegacyMergeAbort \/ LegacyMergeStatus \/ LegacyTagVersion \/ LegacyPushVersion
    \/ LegacyPushRelease \/ LegacyCreateFinal \/ LegacyPushFinal \/ LegacyCatch
    \/ QimaCurrentBranch \/ QimaSwitch \/ QimaFetch \/ QimaPull \/ QimaTag \/ QimaPushTag
    \/ QimaCreateRelease \/ QimaPushRelease \/ QimaCatch
    \/ QimaMergeAbort \/ QimaMergeStatus
    \/ RollbackCheckout \/ RollbackDeleteBranch \/ RollbackDeleteTag
    \/ RollbackDeleteRemoteTag

\* Runs in which an awaited git command always returns and the async function
\* goes on with its next statement; the operator may never answer.
SpecLive == Init /\ [][Next]_vars /\ WF_vars(ProgramStep)

(***************************************************************************)
(* A second execute() of the same request, started in the same working     *)
(* directory while the first is in flight (two CLI processes).  It is       *)
(* followed up to the first git command it issues.                          *)
(***************************************************************************)

\* execute() is entered: the statements before the try block take no lock and
\* look for no run in progress
SecondExecute ==
    /\ second.pc = "idle"
    /\ pc \notin {"done", "failed"}
    /\ second' = [second EXCEPT !.pc = FirstStep(req)]
    /\ UNCHANGED <<req, pc, git, ops, err, thrown, result, createdItems, hist, run, git0,
                   prevSuccess, cli>>

\* the first statement of the second run's try block: `git fetch --prune` of
\* fetchAndUpdate, or `git branch --show-current` of the exec based plugins
SecondFirstCommand ==
    /\ second.pc = FirstStep(req)
    /\ second.pc # "rejected"
    /\ \E f \in BOOLEAN :
          LET c == IF IsGitManagerRun
                   THEN Cmd("git fetch --prune", "fetch", "", "")
                   ELSE Cmd("git branch --show-current", "currentBranch", "", "")
              r == Run(git, c, f)
          IN  second' = [pc |-> IF r.ok THEN "running" ELSE "failed", ops |-> r.log]
    /\ UNCHANGED <<req, pc, git, ops, err, thrown, result, createdItems, hist, run, git0,
                   prevSuccess, cli>>

NextConcurrent == Next \/ SecondExecute \/ SecondFirstCommand

SpecConcurrent == Init /\ [][NextConcurrent]_vars

(***************************************************************************)
(* performRollback on its own: called with every combination of the        *)
(* createdItems flags, in a working directory that holds the flagged        *)
(* artifacts.                                                               *)
(***************************************************************************)
InitRollback ==
    /\ req \in {r \in Requests : r.plugin = "qima-release"}
    /\ createdItems \in [{"tag", "tagPushed", "releaseBranch", "releaseBranchPushed"} -> BOOLEAN]
    /\ \E cur \in Branches(req) \cup
                   {b \in {QimaNames(req).releaseBranch} : createdItems.releaseBranch} :
          git = [cur |-> cur,
                 ltags |-> {t \in {QimaNames(req).versionTag} : createdItems.tag},
                 rtags |-> {t \in {QimaNames(req).versionTag} : createdItems.tagPushed},
                 lbranches |-> Branches(req) \cup
                     {b \in {QimaNames(req).releaseBranch} : createdItems.releaseBranch},
                 rbranches |-> Branches(req) \cup
                     {b \in {QimaNames(req).releaseBranch} : createdItems.releaseBranchPushed},
                 mergeHead |-> FALSE, status |-> {}]
    /\ pc = "rollbackCheckout"
    /\ ops = <<>>
    /\ err = "Command failed"
    /\ thrown = ""
    /\ result = NoResult
    /\ hist = [NoHistory EXCEPT !.rollback = TRUE, !.pending = "Command failed"]
    /\ run = 1
    /\ git0 = git
    /\ prevSuccess = FALSE
    /\ second = NoSecondRun
    /\ \E entry \in Entries : cli = [entry |-> entry, ended |-> FALSE, code |-> 0]

NextRollback ==
    \/ RollbackCheckout \/ RollbackDeleteBranch \/ RollbackDeleteTag
    \/ RollbackDeleteRemoteTag \/ RollbackDeleteRemoteBranch

SpecRollback == InitRollback /\ [][NextRollback]_vars

(***************************************************************************)
(* Properties                                                              *)
(***************************************************************************)

Terminal == pc \in {"done", "failed"}

\* the i-th command of the run was issued after `git merge`
AfterMerge(i) == \E m \in 1..(i - 1) : ops[m].op = "merge"

\* a step that follows the merge step was issued: version tag, a push, the final branch
LaterStepIssued ==
    \E i \in 1..Len(ops) :
        /\ AfterMerge(i)
        /\ ops[i].op \in {"tag", "pushTag", "pushTags", "pushBranch", "createBranch"}

\* `git merge --abort` was issued
MergeAbortIssued == \E i \in 1..Len(ops) : ops[i].op = "mergeAbort"

\* the run created a tag or a branch
ArtifactCreated ==
    \E i \in 1..Len(ops) : ops[i].op \in {"tag", "createBranch"} /\ ops[i].res = "ok"

\* the conflict coordinator reached Resolved: the operator answered continue
\* and the merge was concluded
Resolved == hist.signal = "continue" /\ hist.complete

\* C1: in the workflows that merge production into the release branch, once
\* the merge reported a conflict the version tag is created and something is
\* pushed only if the coordinator reached Resolved (operator continued and
\* the merge was found complete).
C1_NoTagUnlessResolved ==
    (req.plugin # "qima-release" /\ hist.merge = "conflict" /\ LaterStepIssued) => Resolved

\* C2: if the operator signals resume while MERGE_HEAD is still present, the
\* resume fails with an error and no later step of the run is executed.
C2_ResumeWithMarkerFails ==
    (hist.signal = "continue" /\ hist.marker)
        => /\ ~LaterStepIssued
           /\ pc # "done"
           /\ (pc = "failed" => thrown # "")

\* the commands of the nine steps in the order of the claim; with a "custom"
\* repository the fetch of step 1 is followed by the fetch of the develop ref,
\* and after a conflict the status is read before the operator is asked
NineSteps(context, names, conflict) ==
    <<[op |-> "fetch", arg |-> ""]>>
    \o (IF context.baseBranches.type = "custom"
        THEN <<[op |-> "fetchBranch", arg |-> context.baseBranches.develop]>> ELSE <<>>)
    \o <<[op |-> "checkout",     arg |-> context.baseBranches.develop],
         [op |-> "pull",         arg |-> context.baseBranches.develop],
         [op |-> "tag",          arg |-> names.rollbackTag],
         [op |-> "pushTags",     arg |-> names.rollbackTag],
         [op |-> "createBranch", arg |-> names.releaseBranch],
         [op |-> "checkout",     arg |-> context.baseBranches.production],
         [op |-> "pull",         arg |-> context.baseBranches.production],
         [op |-> "checkout",     arg |-> names.releaseBranch],
         [op |-> "merge",        arg |-> context.baseBranches.production]>>
    \o (IF conflict THEN <<[op |-> "status", arg |-> ""]>> ELSE <<>>)
    \o <<[op |-> "tag",          arg |-> names.versionTag],
         [op |-> "pushTags",     arg |-> names.versionTag],
         [op |-> "pushBranch",   arg |-> names.releaseBranch],
         [op |-> "createBranch", arg |-> names.finalReleaseBranch],
         [op |-> "pushBranch",   arg |-> names.finalReleaseBranch]>>

\* C3: a run of StandardReleasePlugin or QimacertReleasePlugin issues its git
\* commands in the fixed order of the nine steps, each only after all earlier
\* ones succeeded (a conflicting merge counts as completed), so a command
\* that failed is the last one of the run.
C3_FixedOrder ==
    IsGitManagerRun =>
        LET expected == NineSteps(req, Names(req), hist.merge = "conflict")
        IN  /\ Len(ops) <= Len(expected)
            /\ \A i \in 1..Len(ops) :
                  /\ ops[i].op = expected[i].op
                  /\ ops[i].arg = expected[i].arg
                  /\ (ops[i].res \notin {"ok", "conflict"}
                         => i = Len(ops) /\ pc \in {"catch", "failed"})
            /\ (pc = "done" => Len(ops) = Len(expected))

\* C3 witness: a run of the nine steps that went through a conflict and completed
C3_Witness == IsGitManagerRun /\ pc = "done" /\ hist.merge = "conflict"

\* C4: when a step fails after the run created a tag or a branch, rollback
\* is invoked before the error reaches the caller of execute, in every variant.
C4_RollbackBeforeRethrow ==
    (pc = "failed" /\ ArtifactCreated) => hist.rollback

\* C5: in a rollback every flagged deletion is attempted, whichever other
\* deletions failed.
C5_DeletionsIndependent ==
    (hist.rollback /\ pc = "failed")
        => \A i \in 1..Len(RollbackSteps) :
              RollbackSteps[i].flag => RollbackSteps[i].label \in hist.attempted

\* C6: the error that reaches the caller of execute is the step failure the
\* catch block caught.
C6_OriginalErrorReachesCaller ==
    pc = "failed" => thrown = err

\* the run is suspended at a conflict prompt
Suspended == pc \in {"waitEnter", "legacyPrompt", "qimaConflictPrompt"}

\* the operator answers abort at the prompt
OperatorAborts == LegacyAnswers("abort") \/ QimaConflictAnswers("abort")

\* C7: wherever a run is suspended on a merge conflict the operator can
\* choose abort; after abort `git merge --abort` was issued, the run fails
\* with an error that contains 'aborted' and no later release step is issued.
C7_AbortAvailable ==
    /\ Suspended => ENABLED OperatorAborts
    /\ (hist.signal = "abort" /\ pc = "failed")
          => MergeAbortIssued /\ Includes(thrown, "aborted") /\ ~LaterStepIssued

\* C8: after a conflict that the operator aborted, neither the rollback tag
\* nor the release branch of the run exists locally or on origin.
C8_AbortRollsBack ==
    (IsLegacyRun /\ hist.merge = "conflict" /\ hist.signal = "abort" /\ pc = "failed")
        => /\ LegacyNames(req).rollbackTag \notin (git.ltags \cup git.rtags)
           /\ LegacyNames(req).releaseBranch \notin (git.lbranches \cup git.rbranches)

\* the run met no failure from outside and no diverging history
CleanRun == ~hist.envFail /\ hist.merge \in {"none", "clean"}

\* C9: the standard request {develop, master, 1.0.0} on a clean repository
\* where no artifact exists yet ends in success with the four names of
\* scenario A.
C9_ScenarioA ==
    (req.plugin = "standard-release" /\ run = 1 /\ Terminal /\ CleanRun)
        => result = [success            |-> TRUE,
                     rollbackTag        |-> "rollback_develop_v1.0.0",
                     releaseBranch      |-> "release_develop_1.0.0",
                     versionTag         |-> "v_repo_1.0.0",
                     finalReleaseBranch |-> "release_develop_1.0.0",
                     error              |-> ""]

\* tags and branches, local and on origin
Artifacts(g) == [ltags |-> g.ltags, rtags |-> g.rtags,
                 lbranches |-> g.lbranches, rbranches |-> g.rbranches]

\* C10: a run of the same request after a run that succeeded creates no tag
\* and no branch, pushes nothing and leaves every artifact in place; without a
\* failure from outside it ends as a reported failure at the tag creation,
\* which is the last command it issues.
C10_RerunFailsAtTag ==
    (run > 1 /\ prevSuccess)
        => /\ Artifacts(git) = Artifacts(git0)
           /\ \A i \in 1..Len(ops) :
                 /\ ops[i].op \notin {"createBranch", "pushTag", "pushTags", "pushBranch",
                                      "deleteTag", "deleteBranch", "deleteRemote"}
                 /\ (ops[i].op = "tag" => ops[i].res = "fail")
           /\ pc # "done"
           /\ (pc = "failed" /\ ~hist.envFail)
                 => /\ thrown # ""
                    /\ ops[Len(ops)].op = "tag"

\* C10 witness: the second run of a request that had succeeded ended at the tag creation
C10_Witness ==
    /\ run > 1 /\ prevSuccess /\ pc = "failed" /\ ~hist.envFail
    /\ ops[Len(ops)] = [op |-> "tag", arg |-> QimacertNames(req).rollbackTag, res |-> "fail"]

\* the tag that step 3 of the running workflow creates
Step3Tag ==
    IF IsQimaRun THEN QimaNames(req).versionTag
    ELSE IF IsLegacyRun THEN LegacyNames(req).rollbackTag
    ELSE Names(req).rollbackTag

\* C11: when the tag of step 3 exists locally as the run starts, the run
\* creates no tag and no branch, pushes nothing, sets no artifact flag,
\* performs no deletion (the existing tag stays) and does not succeed; a
\* failure that is not caused from outside is the rejected tag creation,
\* which is the last command issued.
C11_ExistingTagFailsStep3 ==
    (Step3Tag \in git0.ltags)
        => /\ createdItems = NoItems
           /\ ~hist.rollback /\ hist.attempted = {}
           /\ Artifacts(git) = Artifacts(git0)
           /\ \A i \in 1..Len(ops) :
                 /\ ops[i].op \notin {"createBranch", "pushTag", "pushTags", "pushBranch",
                                      "deleteTag", "deleteBranch", "deleteRemote"}
                 /\ (ops[i].op = "tag" => ops[i].arg = Step3Tag /\ ops[i].res = "fail")
           /\ pc # "done"
           /\ (pc = "failed" /\ ~hist.envFail /\ \E i \in 1..Len(ops) : ops[i].op = "tag")
                 => /\ thrown = err /\ thrown # ""
                    /\ ops[Len(ops)] = [op |-> "tag", arg |-> Step3Tag, res |-> "fail"]

\* C11 witness: a run that found the tag left by an earlier, failed run and ended at step 3
C11_Witness ==
    /\ Step3Tag \in git0.ltags /\ ~prevSuccess /\ pc = "failed" /\ ~hist.envFail
    /\ git0.lbranches = {req.baseBranches.develop, req.baseBranches.production}
    /\ ops[Len(ops)] = [op |-> "tag", arg |-> Step3Tag, res |-> "fail"]

\* C12: in every state of a run a "pushed" flag of createdItems is set only
\* when the matching "created" flag is set.
C12_PushedImpliesCreated ==
    /\ createdItems.tagPushed => createdItems.tag
    /\ createdItems.releaseBranchPushed => createdItems.releaseBranch

\* C12 witness: a run that pushed both the tag and the release branch
C12_Witness ==
    /\ IsQimaRun
    /\ createdItems.tagPushed /\ createdItems.releaseBranchPushed
    /\ QimaNames(req).versionTag \in git.rtags
    /\ QimaNames(req).releaseBranch \in git.rbranches

\* some command of the run was rejected
GitFailure == \E i \in 1..Len(ops) : ops[i].res = "fail"

\* the merge conflicted and the operator signalled resume with the merge concluded
ResolvedConflict == hist.merge = "conflict" /\ Resolved

\* the commands issued after the merge, the status reads left out
SinceMerge ==
    LET m == CHOOSE i \in 1..Len(ops) : ops[i].op = "merge"
    IN  SelectSeq(SubSeq(ops, m + 1, Len(ops)), LAMBDA o : o.op # "status")

\* the run is at step 7 or later (the re-check of the exec based workflow included)
AtStep7OrLater ==
    pc \in {"createVersionTag", "pushVersionTag", "pushReleaseBranch", "createFinalBranch",
            "pushFinalBranch", "legacyMergeStatus", "legacyTagVersion", "legacyPushVersion",
            "legacyPushRelease", "legacyCreateFinal", "legacyPushFinal", "done"}

\* C13: once the operator resumed a conflicted merge that was resolved and
\* committed, the run goes on with step 7 (the first command after the merge
\* is the creation of the version tag) and, unless a git command is rejected,
\* stays in steps 7 to 9 and eventually completes with success.
C13_ResolvedRunCompletes ==
    /\ [](ResolvedConflict =>
             /\ GitFailure \/ AtStep7OrLater
             /\ SinceMerge # <<>> => SinceMerge[1].op = "tag"
             /\ (pc = "done" /\ IsGitManagerRun) => result.success)
    /\ (ResolvedConflict ~> (pc = "done" \/ GitFailure))

\* C13 witness: a run whose conflict was resolved and committed completed with success
C13_Witness ==
    /\ IsGitManagerRun /\ ResolvedConflict /\ pc = "done" /\ result.success
    /\ ~GitFailure
    /\ Names(req).versionTag \in git.rtags

\* the operator signalled resume while .git/MERGE_HEAD was still there
UnresolvedResume == hist.signal = "continue" /\ hist.marker

\* C14: after a resume that found the merge marker still present the run
\* waits for a further signal of the operator: it neither goes on with a
\* later step nor ends, so the operator can still complete the merge and
\* resume in the same run.
C14_ReentersSuspended ==
    UnresolvedResume
        => /\ pc \notin {"failed", "done"}
           /\ ~LaterStepIssued
           /\ (pc = "catch" => ENABLED (PressEnter \/ LegacyAnswer))

\* the re-check after the operator's resume signal passed: the run stands
\* before step 7
PassedRecheck ==
    /\ hist.signal = "continue"
    /\ pc \in {"createVersionTag", "legacyTagVersion"}

\* C15: the re-check after a resume signal passes only when the merge marker
\* is absent and no path is flagged unmerged, both-added or both-deleted; a
\* merge whose files were staged but not committed does not pass.
C15_RecheckMarkerAndStatus ==
    PassedRecheck => /\ ~isMergeInProgress(git)
                     /\ git.status \cap ConflictCodes = {}

\* C16: a merge that failed without being a conflict ends the run: the
\* operator is never prompted and no version tag (nor any later step) follows.
C16_MergeErrorIsFatal ==
    hist.merge = "error"
        => /\ ~Suspended
           /\ hist.signal = "none"
           /\ ~LaterStepIssued
           /\ pc \in {"catch", "failed"}

\* C17: a run started in a working directory where a run is in flight fails
\* at once, before it issues any git command; two runs never execute steps
\* in the same working directory at the same time.
C17_OneRunPerDirectory ==
    /\ second.ops = <<>>
    /\ second.pc # "running"

\* C18: when execute() of the release plugin failed the process ends with a
\* non-zero exit code; it ends with 0 only when the release succeeded.
C18_ExitCodeReportsFailure ==
    cli.ended => (cli.code = 0 <=> pc = "done")

\* C19: performRollback returns normally whatever flags are set and whichever
\* of its commands fail: the error that leaves the failure handler afterwards
\* is the one that was pending when the rollback began, never the error of a
\* rollback command.
C19_RollbackNeverThrows ==
    (hist.rollback /\ pc = "failed")
        => /\ thrown = hist.pending
           /\ \A step \in {"git checkout develop", "git branch -D", "git tag -d",
                            "git push origin --delete"} : ~Includes(thrown, step)

\* C19 witness: a rollback with every flag set whose last deletion failed
C19_Witness ==
    /\ hist.rollback /\ pc = "failed"
    /\ \A k \in DOMAIN createdItems : createdItems[k]
    /\ Len(ops) = 5 /\ ops[5].op = "deleteRemote" /\ ops[5].res = "fail"

\* the deletions among the commands issued so far
Deletions == SelectSeq(ops, LAMBDA o : o.op \in {"deleteBranch", "deleteTag", "deleteRemote"})

\* place of a deletion in reverse creation order: remote branch, remote tag,
\* local branch, local tag
ReverseCreationRank(o) ==
    CASE o.op = "deleteRemote" /\ o.arg = QimaNames(req).releaseBranch -> 1
      [] o.op = "deleteRemote"                                         -> 2
      [] o.op = "deleteBranch"                                         -> 3
      [] OTHER                                                         -> 4

\* C20: rollback issues its deletions in reverse creation order: the pushed
\* remote branch first, then the pushed remote tag, then the local branch,
\* then the local tag.
C20_ReverseCreationOrder ==
    \A i, j \in 1..Len(Deletions) :
        i < j => ReverseCreationRank(Deletions[i]) < ReverseCreationRank(Deletions[j])

\* how often the run issued command op on arg
Attempts(op, arg) == Len(SelectSeq(ops, LAMBDA o : o.op = op /\ o.arg = arg))

\* the four artifact kinds of a rollback: the flag that guards the deletion
\* and the deletion command
ArtifactKinds ==
    {[flag |-> "releaseBranch",       op |-> "deleteBranch", arg |-> QimaNames(req).releaseBranch],
     [flag |-> "tag",                 op |-> "deleteTag",    arg |-> QimaNames(req).versionTag],
     [flag |-> "tagPushed",           op |-> "deleteRemote", arg |-> QimaNames(req).versionTag],
     [flag |-> "releaseBranchPushed", op |-> "deleteRemote", arg |-> QimaNames(req).releaseBranch]}

\* C21: once a rollback is over it has attempted exactly one deletion for
\* each artifact whose flag is set and none for an artifact whose flag is
\* not set.
C21_OneDeletionPerFlag ==
    (hist.rollback /\ pc = "failed")
        => \A k \in ArtifactKinds :
              Attempts(k.op, k.arg) = IF createdItems[k.flag] THEN 1 ELSE 0

\* the inputs the artifact names may depend on
NameInputs(context) ==
    [developBranch    |-> context.baseBranches.develop,
     productionBranch |-> context.baseBranches.production,
     versionTag       |-> context.tagName,
     workflowKind     |-> <<context.plugin, context.baseBranches.type>>]

\* the four artifact names the plugin selected by the context computes
ArtifactNames(context) ==
    CASE context.plugin = "standard-release"    -> StandardNames(context)
      [] context.plugin = "qimacert-release"    -> QimacertNames(context)
      [] context.plugin = "qima-legacy-release" -> LegacyNames(context)
      [] OTHER -> [rollbackTag |-> "", finalReleaseBranch |-> ""] @@ QimaNames(context)

\* C22: the artifact names of a successful run are determined by develop
\* branch, production branch, version tag and workflow kind: every request
\* that agrees with it on these four inputs gets the same names.
C22_NamesArePureFunction ==
    pc = "done"
        => \A other \in Requests :
              NameInputs(other) = NameInputs(req) => ArtifactNames(other) = ArtifactNames(req)

\* the branch creations issued after the merge (step 9)
Step9Creations ==
    {i \in 1..Len(ops) : ops[i].op = "createBranch" /\ AfterMerge(i)}

\* C23: the branch step 9 creates is named "release_" + production branch +
\* "_" + version tag, and its name differs from the release branch of step 4
\* whenever develop and production branch differ.
C23_FinalBranchName ==
    IsGitManagerRun
        => \A i \in Step9Creations :
              /\ ops[i].arg = "release_" \o req.baseBranches.production \o "_" \o req.tagName
              /\ req.baseBranches.develop # req.baseBranches.production
                    => ops[i].arg # Names(req).releaseBranch

\* the commands issued by the step being taken
NewlyIssued == {i \in 1..Len(ops') : i > Len(ops) /\ ops' # <<>>}

\* C24: `git fetch origin X:X` is never issued while X is the branch that is
\* checked out.
C24_FetchBranchGuarded ==
    [][\A i \in NewlyIssued : ops'[i].op = "fetchBranch" => git.cur # ops'[i].arg]_vars

\* how many times the nine steps of the run call for the command (op, arg)
StepCount(op, arg) ==
    Len(SelectSeq(NineSteps(req, Names(req), hist.merge = "conflict"),
                  LAMBDA o : o.op = op /\ o.arg = arg))

\* C25: a run of the nine steps on GitManager issues the git command of a step
\* at most once, and a command that failed is not issued again in the run.
C25_NoRetry ==
    IsGitManagerRun =>
        \A i \in 1..Len(ops) :
            /\ Attempts(ops[i].op, ops[i].arg) <= StepCount(ops[i].op, ops[i].arg)
            /\ ops[i].res = "fail"
                  => \A j \in (i + 1)..Len(ops) :
                        ~(ops[j].op = ops[i].op /\ ops[j].arg = ops[i].arg)

\* C25 witness: a run on GitManager ended on a pull that failed
C25_Witness ==
    /\ IsGitManagerRun /\ pc = "failed"
    /\ ops # <<>> /\ ops[Len(ops)].op = "pull" /\ ops[Len(ops)].res = "fail"

\* the request lacks the project folder, the tag or version, or the base branches
Malformed(context) ==
    \/ context.projectFolder = ""
    \/ (IF context.plugin \in GitManagerPlugins THEN context.tagName
                                                ELSE context.parameters.version) = ""
    \/ context.baseBranches = NoBaseBranches

\* C26: a run on a malformed request issues no git command.
C26_MalformedRejected == Malformed(req) => ops = <<>>

\* C27: a step taken while the run is suspended at a conflict prompt issues no
\* git command, and the run leaves the prompt only in a step in which the
\* operator answers it (continue or abort).
C27_SuspendedUntilSignal ==
    [][Suspended =>
          /\ ops' = ops
          /\ pc' # pc => \E a \in LegacyChoices : hist' = Answered(a)]_vars

\* C27 witness: the operator staged the files while the run was suspended,
\* then answered continue
C27_Witness ==
    /\ pc \in {"legacyMergeStatus", "qimaMergeStatus", "createVersionTag"}
    /\ hist.merge = "conflict" /\ hist.signal = "continue"

\* every command of the nine steps was issued and none failed
AllStepsCompleted ==
    /\ Len(ops) = Len(NineSteps(req, Names(req), hist.merge = "conflict"))
    /\ \A i \in 1..Len(ops) : ops[i].res \in {"ok", "conflict"}

\* C28: the ReleaseResult of a run on GitManager has success = TRUE only when
\* all nine steps completed, and then its four artifact names are set; once a
\* step failed and the run ended, success is FALSE and error is set.
C28_ResultRecord ==
    IsGitManagerRun =>
        /\ result.success =>
               /\ AllStepsCompleted
               /\ result.rollbackTag # "" /\ result.releaseBranch # ""
               /\ result.versionTag # "" /\ result.finalReleaseBranch # ""
        /\ (pc = "failed" /\ Rejection(req) = "") => ~result.success /\ result.error # ""

\* C28 witness: a run completed the nine steps and set success
C28_Witness == IsGitManagerRun /\ pc = "done" /\ result.success /\ AllStepsCompleted

\* C29: when a run ends in success, every tag and every branch it created
\* exists on origin.
C29_SuccessMeansPushed ==
    pc = "done" =>
        /\ (git.ltags \ git0.ltags) \subseteq git.rtags
        /\ (git.lbranches \ git0.lbranches) \subseteq git.rbranches

\* the run issued the command (op, arg) and it succeeded
Succeeded(op, arg) ==
    \E i \in 1..Len(ops) : ops[i].op = op /\ ops[i].arg = arg /\ ops[i].res = "ok"

\* createdItems of QimaReleasePlugin records exactly the creations and pushes
\* that succeeded in the run
QimaFlagsExact ==
    /\ createdItems.tag <=> Succeeded("tag", QimaNames(req).versionTag)
    /\ createdItems.tagPushed <=> Succeeded("pushTag", QimaNames(req).versionTag)
    /\ createdItems.releaseBranch <=> Succeeded("createBranch", QimaNames(req).releaseBranch)
    /\ createdItems.releaseBranchPushed
          <=> Succeeded("pushBranch", QimaNames(req).releaseBranch)

\* the ReleaseResult of a run on GitManager names the rollback tag and the
\* release branch exactly when the run created them
ResultFlagsExact ==
    /\ result.rollbackTag # "" <=> Succeeded("tag", Names(req).rollbackTag)
    /\ result.releaseBranch # "" <=> Succeeded("createBranch", Names(req).releaseBranch)

\* C30: in every state of a run the record of artifacts says exactly which
\* creations and which pushes succeeded in the run.
C30_FlagsDescribeRun ==
    /\ IsQimaRun => QimaFlagsExact
    /\ IsGitManagerRun => ResultFlagsExact

(***************************************************************************)
(* GitManager on its own: createTag and pushTag called in any order in a   *)
(* working directory that may already hold tags, pushed or not.            *)
(***************************************************************************)
MaxCalls == 2

\* the tag names handed to createTag and pushTag
TagNames == {"rollback_develop_v1.0.0", "v_repo_1.0.0", "v_repo_0.9.0"}

InitGitManager ==
    /\ req = Context("standard-release", "develop", "master", "standard", TRUE)
    /\ \E cur \in Branches(req), ltags \in SUBSET TagNames, rtags \in SUBSET TagNames :
          git = [cur |-> cur, ltags |-> ltags, rtags |-> rtags,
                 lbranches |-> Branches(req), rbranches |-> Branches(req),
                 mergeHead |-> FALSE, status |-> {}]
    /\ pc = "gitManager"
    /\ ops = <<>>
    /\ err = ""
    /\ thrown = ""
    /\ result = NoResult
    /\ createdItems = NoItems
    /\ hist = NoHistory
    /\ run = 1
    /\ git0 = git
    /\ prevSuccess = FALSE
    /\ second = NoSecondRun
    /\ cli = [entry |-> "release", ended |-> FALSE, code |-> 0]

\* a caller awaits one GitManager method and keeps the error it rejects with
Called(call) ==
    /\ pc = "gitManager"
    /\ Len(ops) < MaxCalls
    /\ git' = call.git
    /\ ops' = ops \o call.log
    /\ err' = IF call.ok THEN err ELSE call.err
    /\ UNCHANGED <<req, pc, thrown, result, createdItems, hist, run, git0, prevSuccess,
                   second, cli>>

CallCreateTag ==
    /\ \E tagName \in TagNames, f \in BOOLEAN : Called(createTag(git, tagName, f))

CallPushTag ==
    /\ \E tagName \in TagNames, f \in BOOLEAN : Called(pushTag(git, tagName, f))

NextGitManager == CallCreateTag \/ CallPushTag

SpecGitManager == InitGitManager /\ [][NextGitManager]_vars

\* C31: a pushTag(name) that succeeds adds no tag other than `name` to origin.
C31_PushTagOnlyNamed ==
    [][\A i \in NewlyIssued :
          (ops'[i].op = "pushTags" /\ ops'[i].res = "ok")
              => (git'.rtags \ git.rtags) \subseteq {ops'[i].arg}]_vars

\* the branch a release is cut from
SourceBranch(context) ==
    IF context.plugin = "qima-legacy-release" THEN LegacySettings(context).qimacertBranch
                                              ELSE context.baseBranches.develop

\* the merge of the production branch was issued and is concluded
MergeConcluded ==
    /\ \E i \in 1..Len(ops) : ops[i].op = "merge" /\ ops[i].res \in {"ok", "conflict"}
    /\ MergeComplete(git)

\* C32: the rollback tag is created on the source branch, after it was pulled
\* and before the release branch exists; the version tag is created on the
\* release branch and only once the merge of the production branch is concluded.
C32_TagsOnRightCommit ==
    [][(IsGitManagerRun \/ IsLegacyRun) =>
          \A i \in NewlyIssued :
              (ops'[i].op = "tag" /\ ops'[i].res = "ok") =>
                  IF ops'[i].arg = ArtifactNames(req).rollbackTag
                  THEN /\ git.cur = SourceBranch(req)
                       /\ Succeeded("pull", SourceBranch(req))
                       /\ ArtifactNames(req).releaseBranch \notin git.lbranches
                  ELSE /\ git.cur = ArtifactNames(req).releaseBranch
                       /\ MergeConcluded]_vars

(***************************************************************************)
(* The CLI in front of the release plugins: the `run` command              *)
(* (runAutomation -> executeCategoryOperations -> buildPluginContext) and  *)
(* the `release` command (startReleaseProcess -> executeRelease), for      *)
(* every list of loaded release plugins, every choice of the operator and  *)
(* with or without a configured repository.  In this specification cli     *)
(* also holds: loaded, the release plugins in load order; choice, the      *)
(* plugin picked at the prompt; repository, the path selectRepository      *)
(* returned ("" for null); confirmed, the tag name was given and the       *)
(* release confirmed; executed, the plugin handed to executePlugin.        *)
(***************************************************************************)
MaxPlugins == 3

\* names of plugins of category RELEASE: the two of this repository and one
\* loaded from the plugins directory
ReleasePluginNames == {"qima-release", "qima-legacy-release", "other-release"}

\* getPluginsByCategory(RELEASE): the loaded release plugins, in load order
LoadedLists ==
    {l \in UNION {[1..n -> ReleasePluginNames] : n \in 0..MaxPlugins} :
        \A i, j \in 1..Len(l) : i # j => l[i] # l[j]}

\* the elements of a list
Range(l) == {l[i] : i \in 1..Len(l)}

\* Array.prototype.find with the test of executeRelease: the first QIMA plugin
\* of the list, "" (undefined) when there is none
FindQima(l) ==
    IF \E i \in 1..Len(l) : l[i] \in QimaPlugins
    THEN l[CHOOSE i \in 1..Len(l) :
               l[i] \in QimaPlugins /\ \A j \in 1..(i - 1) : l[j] \notin QimaPlugins]
    ELSE ""

\* the context before a command built one
NoRequest ==
    [Context("", "", "", "", TRUE) EXCEPT !.projectFolder = "", !.tagName = "",
                                          !.baseBranches = NoBaseBranches,
                                          !.parameters = [version |-> ""]]

\* buildPluginContext, case RELEASE: the QIMA plugins get the selected
\* repository (when there is one) and the version typed at the prompt; the
\* other release plugins get the variables of an environment
buildPluginContext(pluginName, repository) ==
    IF pluginName \in QimaPlugins
    THEN [NoRequest EXCEPT !.plugin = pluginName, !.projectFolder = repository,
                           !.parameters = [version |-> "1.0.0"]]
    ELSE [NoRequest EXCEPT !.plugin = pluginName]

\* the plugin startReleaseProcess settles on: the only one, or the one chosen
selectedPlugin(c) == IF Len(c.loaded) = 1 THEN c.loaded[1] ELSE c.choice

\* the plugin executeRelease hands to executePlugin
executeReleasePlugin(l) == IF FindQima(l) # "" THEN FindQima(l) ELSE l[1]

InitCli ==
    /\ \E e \in Entries, l \in LoadedLists, r \in {"", "repo"}, k \in BOOLEAN :
          \E ch \in (IF l = <<>> THEN {""} ELSE Range(l)) :
              cli = [entry |-> e, ended |-> FALSE, code |-> 0, loaded |-> l, choice |-> ch,
                     repository |-> r, confirmed |-> k, executed |-> ""]
    /\ req = NoRequest
    /\ pc = "cli"
    /\ \E cur \in {"develop", "develop-qimacert", "master"} :
          git = [cur |-> cur, ltags |-> {}, rtags |-> {},
                 lbranches |-> {"develop", "develop-qimacert", "master"},
                 rbranches |-> {"develop", "develop-qimacert", "master"},
                 mergeHead |-> FALSE, status |-> {}]
    /\ ops = <<>>
    /\ err = ""
    /\ thrown = ""
    /\ result = NoResult
    /\ createdItems = NoItems
    /\ hist = NoHistory
    /\ run = 1
    /\ git0 = git
    /\ prevSuccess = FALSE
    /\ second = NoSecondRun

\* pluginManager.executePlugin(name, context): plugin.execute(context) starts
ExecutePlugin(name, context) ==
    /\ req' = context
    /\ pc' = IF name \in QimaPlugins THEN FirstStep(context) ELSE "executing"
    /\ cli' = [cli EXCEPT !.executed = name]

\* the command returns without having executed a plugin
Exits ==
    /\ pc' = "exited"
    /\ cli' = [cli EXCEPT !.ended = TRUE]
    /\ UNCHANGED req

\* the `run` command with category RELEASE
RunCommand ==
    /\ pc = "cli"
    /\ cli.entry = "category"
    /\ IF cli.loaded = <<>>
       THEN Exits
       ELSE ExecutePlugin(cli.choice, buildPluginContext(cli.choice, cli.repository))
    /\ UNCHANGED <<git, ops, err, thrown, result, createdItems, hist, run, git0, prevSuccess,
                   second>>

\* the `release` command
ReleaseCommand ==
    /\ pc = "cli"
    /\ cli.entry = "release"
    /\ IF cli.loaded = <<>> \/ cli.repository = ""
       THEN Exits
       ELSE IF selectedPlugin(cli) \in QimaPlugins
            THEN ExecutePlugin(selectedPlugin(cli),
                               [NoRequest EXCEPT !.plugin = selectedPlugin(cli),
                                                 !.projectFolder = cli.repository,
                                                 !.parameters = [version |-> "1.0.0"]])
            ELSE IF ~cli.confirmed
                 THEN Exits
                 ELSE ExecutePlugin(executeReleasePlugin(cli.loaded),
                                    [NoRequest EXCEPT
                                        !.plugin = executeReleasePlugin(cli.loaded),
                                        !.projectFolder = cli.repository,
                                        !.tagName = "1.0.0",
                                        !.baseBranches = [develop |-> "develop",
                                                          production |-> "master",
                                                          type |-> "standard"]])
    /\ UNCHANGED <<git, ops, err, thrown, result, createdItems, hist, run, git0, prevSuccess,
                   second>>

\* the commands, then the statements of the executed plugin up to its first
\* git command
NextCli ==
    \/ RunCommand \/ ReleaseCommand
    \/ Reject \/ LegacyCurrentBranch \/ QimaCurrentBranch

SpecCli == InitCli /\ [][NextCli]_vars

\* C33: on every path of the CLI a release plugin issues a git command only
\* when the operator selected a repository (never in the directory the
\* process happens to run in).
C33_OnlySelectedRepository ==
    ops # <<>> => (cli.executed # "" /\ cli.repository # "")

\* C34: the plugin the `release` command executes is the plugin the operator
\* selected, or the only release plugin when exactly one is loaded.
C34_ExecutesSelectedPlugin ==
    (cli.entry = "release" /\ cli.executed # "") => cli.executed = selectedPlugin(cli)

\* C35: performRollback first checks out the develop branch the run is
\* configured with, and `git branch -D` of the release branch is issued only
\* while that develop branch is checked out.
C35_RollbackSwitchesToDevelop ==
    [][IsQimaRun =>
          \A i \in NewlyIssued :
              /\ (pc = "rollbackCheckout" /\ ops'[i].op = "checkout")
                    => ops'[i].arg = QimaSettings(req).developBranch
              /\ ops'[i].op = "deleteBranch"
                    => git.cur = QimaSettings(req).developBranch]_vars

\* the run issued a deletion of performRollback
DeletionIssued ==
    \E i \in 1..Len(ops) : ops[i].op \in {"deleteBranch", "deleteTag", "deleteRemote"}

\* C36: a run of QimaReleasePlugin reaches the rollback prompt at most once and
\* only with the tag or the release branch flagged; it issues deletions only
\* after the operator confirmed; a run that failed with no flag set was not
\* prompted and deleted nothing.
C36_RollbackOfferedOnce ==
    /\ [][(IsQimaRun /\ pc # "qimaRollbackPrompt" /\ pc' = "qimaRollbackPrompt")
             => /\ createdItems.tag \/ createdItems.releaseBranch
                /\ hist.pending = "" /\ ~hist.rollback]_vars
    /\ [](IsQimaRun =>
             /\ DeletionIssued => hist.rollback
             /\ hist.rollback => hist.pending # ""
             /\ (pc = "failed" /\ ~createdItems.tag /\ ~createdItems.releaseBranch)
                   => hist.pending = "" /\ ~DeletionIssued)

\* C36 witness: the operator confirmed the one offer and the tag was deleted
C36_Witness ==
    /\ IsQimaRun /\ pc = "failed" /\ hist.rollback
    /\ \E i \in 1..Len(ops) : ops[i].op = "deleteTag" /\ ops[i].res = "ok"

(***************************************************************************)
(* ConfigManager: the list of configured repositories of the CLI, under    *)
(* any sequence of addRepository and removeRepository calls.  In this      *)
(* specification cli holds: repositories, config.repositories; calls, the  *)
(* number of calls made (the value `new Date()` gives the next one); last, *)
(* the call just made with the value it returned.                           *)
(***************************************************************************)
MaxConfigCalls == 4

RepositoryNames == {"app", "api", "web"}

RepositoryPaths == {"/srv/a", "/srv/b"}

\* Array.prototype.findIndex on the name: 0 stands for -1 (lists start at 1)
findIndex(repositories, name) ==
    IF \E i \in 1..Len(repositories) : repositories[i].name = name
    THEN CHOOSE i \in 1..Len(repositories) :
             /\ repositories[i].name = name
             /\ \A j \in 1..(i - 1) : repositories[j].name # name
    ELSE 0

\* Variant of addRepository that appends without looking for the name.
addRepositoryPush(repositories, repo, now) ==
    Append(repositories, [name |-> repo.name, path |-> repo.path, lastUsed |-> now])

addRepository(repositories, repo, now) ==
    LET existingIndex == findIndex(repositories, repo.name)
        entry == [name |-> repo.name, path |-> repo.path, lastUsed |-> now]
    IN  IF existingIndex >= 1
        THEN [repositories EXCEPT ![existingIndex] = entry]
        ELSE Append(repositories, entry)

removeRepository(repositories, repoName) ==
    LET kept == SelectSeq(repositories, LAMBDA r : r.name # repoName)
    IN  [repositories |-> kept, returned |-> Len(kept) < Len(repositories)]

InitConfig ==
    /\ cli = [entry |-> "config", ended |-> FALSE, code |-> 0, repositories |-> <<>>,
              calls |-> 0,
              last |-> [op |-> "none", name |-> "", path |-> "", returned |-> FALSE]]
    /\ req = NoRequest
    /\ pc = "config"
    /\ git = [cur |-> "develop", ltags |-> {}, rtags |-> {},
              lbranches |-> {"develop", "master"}, rbranches |-> {"develop", "master"},
              mergeHead |-> FALSE, status |-> {}]
    /\ ops = <<>>
    /\ err = ""
    /\ thrown = ""
    /\ result = NoResult
    /\ createdItems = NoItems
    /\ hist = NoHistory
    /\ run = 1
    /\ git0 = git
    /\ prevSuccess = FALSE
    /\ second = NoSecondRun

AddRepository ==
    /\ cli.calls < MaxConfigCalls
    /\ \E name \in RepositoryNames, path \in RepositoryPaths :
          cli' = [cli EXCEPT
                     !.repositories = addRepository(@, [name |-> name, path |-> path],
                                                    cli.calls + 1),
                     !.calls = @ + 1,
                     !.last = [op |-> "add", name |-> name, path |-> path,
                               returned |-> FALSE]]
    /\ UNCHANGED <<req, pc, git, ops, err, thrown, result, createdItems, hist, run, git0,
                   prevSuccess, second>>

RemoveRepository ==
    /\ cli.calls < MaxConfigCalls
    /\ \E name \in RepositoryNames :
          LET r == removeRepository(cli.repositories, name)
          IN  cli' = [cli EXCEPT
                         !.repositories = r.repositories,
                         !.calls = @ + 1,
                         !.last = [op |-> "remove", name |-> name, path |-> "",
                                   returned |-> r.returned]]
    /\ UNCHANGED <<req, pc, git, ops, err, thrown, result, createdItems, hist, run, git0,
                   prevSuccess, second>>

NextConfig == AddRepository \/ RemoveRepository

SpecConfig == InitConfig /\ [][NextConfig]_vars

\* the positions of a list whose entry has the name
Named(repositories, name) == {i \in 1..Len(repositories) : repositories[i].name = name}

\* C37: no two configured repositories share a name; addRepository with a
\* name that exists replaces that entry where it stands and otherwise appends;
\* removeRepository(name) removes every entry of that name, keeps the others
\* as they were and in order, and returns true exactly when it removed one.
C37_UniqueRepositoryNames ==
    /\ [](\A i, j \in 1..Len(cli.repositories) :
             cli.repositories[i].name = cli.repositories[j].name => i = j)
    /\ [][LET before == cli.repositories
              after  == cli'.repositories
              call   == cli'.last
          IN  /\ call.op = "add" =>
                    IF Named(before, call.name) # {}
                    THEN /\ Len(after) = Len(before)
                         /\ \A i \in 1..Len(before) :
                               IF i \in Named(before, call.name)
                               THEN after[i].name = call.name /\ after[i].path = call.path
                               ELSE after[i] = before[i]
                    ELSE /\ Len(after) = Len(before) + 1
                         /\ SubSeq(after, 1, Len(before)) = before
                         /\ after[Len(after)].name = call.name
                         /\ after[Len(after)].path = call.path
              /\ call.op = "remove" =>
                    /\ Named(after, call.name) = {}
                    /\ Len(after) = Len(before) - Cardinality(Named(before, call.name))
                    /\ \A i, j \in 1..Len(before) :
                          (i < j /\ before[i].name # call.name /\ before[j].name # call.name)
                              => \E k, l \in 1..Len(after) :
                                    k < l /\ after[k] = before[i] /\ after[l] = before[j]
                    /\ \A i \in 1..Len(before) :
                          before[i].name # call.name
                              => \E k \in 1..Len(after) : after[k] = before[i]
                    /\ call.returned <=> Named(before, call.name) # {}]_vars

\* C37 witness: the first of two entries was replaced where it stands by a
\* later addRepository with its name
C37_Witness ==
    /\ cli.entry = "config" /\ Len(cli.repositories) = 2
    /\ cli.last.op = "add" /\ cli.repositories[1].name = cli.last.name
    /\ cli.repositories[1].lastUsed > cli.repositories[2].lastUsed

====
